---- MODULE Spec2Model ----
(***************************************************************************)
(* FLOMPY: the low-level floppy disk controller engine of flompy.c and the *)
(* interrupt handler floppy_irq_ (flompirq.asm).                           *)
(*                                                                         *)
(* Two execution contexts: the foreground (mode loop, low_open,            *)
(* low_read_track, low_close, floppy_irq_wait_timeout) advances one        *)
(* statement group per step through pc; the interrupt handler preempts it  *)
(* between any two steps and runs to completion as one step.               *)
(*                                                                         *)
(* Further specifications take one part at full detail: the timed wait     *)
(* (SpecWait), the timing normalizer (SpecNorm), floppy_write and          *)
(* floppy_read poll by poll (SpecByte) and the sector mode mode_high with  *)
(* high_read_sector and high_retry (SpecHigh).                             *)
(***************************************************************************)
EXTENDS Integers, Sequences, FiniteSets, TLC

\* ------------------------------------------------------------- constants

\* flompy.c:36 and flompirq.asm:7 set the capacity to 31000; the model keeps
\* the same comparisons on a buffer of this many cells.
MAX_TRACK_SIZE == 2
\* #define MAX_SECTOR_SIZE 2048, scaled: the cells of highdata
MAX_SECTOR_SIZE == 2

HIGH_RETRIES == 8
SEEK_RETRIES == 8
READ_RETRIES == 4
LOW_TIMEOUT == 180

\* the inner poll loop of floppy_irq_wait_timeout wraps a uint16 (65536
\* polls); the model wraps the same counter after this many polls.
SHORT_POLLS == 2

\* the poll counter of floppy_write and floppy_read is a uint16 too: ++timeout
\* reaches 0 again after 65536 polls; the model's counter after this many.
BYTE_POLLS == 3

\* the BIOS tick counter restarts at 0 at midnight (0x1800B0 ticks a day on
\* the PC); the model's day has this many ticks.
DAY_TICKS == 200

\* values given with -t (a track count, or the track of a single-track mode)
TrackArgs == {0, 1, 2}
\* values given with -h (intarg accepts 0 .. 2)
SideArgs == {0, 1, 2}
\* values given with -s (sectors per track; intarg accepts 0 .. 255)
SectorArgs == {0, 1, 2}
\* values given with -f (any int; only fill & 0xFF is used)
FillArgs == {0, 485}
\* what INT 13h returns in AH: 0 success, 04h sector not found, 10h CRC
\* error in the data read
BiosStatus == {0, 4, 16}

LOW_SUCCESS == 0
LOW_RESET == 1
LOW_CALIBRATE_TIMEOUT == 2
LOW_CALIBRATE == 3
LOW_SEEK_TIMEOUT == 4
LOW_SEEK == 5
LOW_TRACK_TIMEOUT == 6
LOW_EMPTY == 7

RESULT_SUCCESS == 0
RESULT_PARTIAL == 7
RESULT_LOW == 10

\* cylinders a sense-interrupt-status can report
Cyls == TrackArgs \cup {255}
\* the drive chosen with -d and the interrupt-controller mask the host left
\* in port 0x21 (0xB8: IRQ 6 open, 0xF8: IRQ 6 masked)
Hosts == { [device |-> 0, mask |-> 184], [device |-> 1, mask |-> 248] }
\* what the disk holds: every byte of track cy, side hd reads as this value,
\* never 0 and different for every track and side
DiskByte(cy, hd) == 16 * (cy + 1) + hd + 1
\* the PIT count latched for the k-th byte of a read: it counts down and
\* reloads (wraps) after 0
TimerAt(k) == (65535 - 30000 * k) % 65536

Modes == {"low", "full", "track", "ftrack"}
MultiModes == {"low", "full"}

\* ------------------------------------------------------------- state

VARIABLES
    \* flompy.c globals
    lowpos, lowdata, lowtime, lowtime_on, floppy_irq_wait, floppy_c,
    floppy_irq_old, pic0_mask_old, device,
    tracks, sides, mode,
    \* the bytes the latest mode_low_track_write call appended to the file
    out,
    \* locals of the mode function, low_open/low_read_track, the wait
    c, h, i, result, invalid, wres, short_timeout, timestart,
    \* control: program counter, return sites of the wait and of low_close
    pc, wsite, xsite,
    \* machine: INT 0Eh vector, PIC mask, CPU interrupt flag, digital
    \* output register, controller phase, BIOS tick counter, whether the
    \* program has read the counter since it last advanced
    vector, pic_mask, iflag, dor, fdc, clock, sampled,
    \* bookkeeping for the properties: the host's mask, a store outside the
    \* buffer, the byte the handler last took from the data register, the data
    \* interrupts of the current read, the session, the commands issued and
    \* the attempts that missed in the current stage, the buffer as it was
    \* when the read step began, the pairs written, pending return values;
    \* ports lists the port accesses of the latest handler invocation
    hostMask, oob, datareg, nirq, ports, sess, issued, missed, snap, rec,
    lret, rc,
    \* more bookkeeping: the stage the current session has completed, whether
    \* the latest sense-interrupt-status delivered the cylinder byte that was
    \* accepted, the -h argument as it was given when it names the side of
    \* a single-track mode (-1 when it is a count of sides)
    stage, delivered, side_arg,
    \* sector (high) mode: more globals, the sector loop variable and the
    \* bytes written so far
    highdata, track_sectors, sector_bytes, fill, s, flen,
    \* the poll counter of floppy_write / floppy_read
    timeout

vars == << lowpos, lowdata, lowtime, lowtime_on, floppy_irq_wait, floppy_c,
           floppy_irq_old, pic0_mask_old, device, tracks, sides, mode, out,
           c, h, i, result, invalid, wres, short_timeout, timestart,
           pc, wsite, xsite, vector, pic_mask, iflag, dor, fdc, clock,
           sampled,
           hostMask, oob, datareg, nirq, ports, sess, issued, missed, snap, rec,
           lret, rc, stage, delivered, side_arg,
           highdata, track_sectors, sector_bytes, fill, s, flen, timeout >>

\* groups of variables for the UNCHANGED clauses
gCap   == << lowpos, lowdata, lowtime, oob >>
gHw    == << vector, pic_mask, iflag, floppy_irq_old, pic0_mask_old >>
gFdc   == << dor, fdc >>
gHigh  == << highdata, track_sectors, sector_bytes, fill, s, flen >>
gProg  == << lowtime_on, device, tracks, sides, mode, hostMask, side_arg,
            timeout, gHigh >>
gEnv   == << datareg, nirq, ports >>
gMode  == << c, h, result, invalid, out, rec, rc >>
gWait  == << short_timeout, timestart, clock, sampled >>
gStage == << i, floppy_c, issued, missed, snap, lret >>
gCtl   == << pc, wsite, xsite, wres, sess, stage, delivered >>

\* ------------------------------------------------------------- helpers

MaskHasBit6(m) == (m \div 64) % 2 = 1
\* pic0_mask_old & (~(1<<6))
UnmaskIrq6(m) == IF MaskHasBit6(m) THEN m - 64 ELSE m

\* values written to the digital output register (lowport|2)
DorReset(d)  == d
DorEnable(d) == 12 + d
DorMotor(d)  == (IF d = 0 THEN 16 ELSE 32) + 12 + d

\* a store through a far pointer: inside the buffer it replaces the cell;
\* outside it the buffer itself is untouched (other memory is hit)
Store(buf, idx, val) ==
    IF idx \in DOMAIN buf THEN [buf EXCEPT ![idx] = val] ELSE buf

\* uint32 w = lowpos; fwrite(&w,4,1,f): four bytes, least significant first
LE32(n) == << n % 256, (n \div 256) % 256, (n \div 65536) % 256,
              (n \div 16777216) % 256 >>
\* one uint16 of lowtime as fwrite(lowtime,2,..) stores it
LE16(n) == << n % 256, (n \div 256) % 256 >>

Cells == 0 .. (MAX_TRACK_SIZE - 1)
\* get_memory() is malloc(); a cell reaches the output only after the handler
\* has stored into it, so what the heap held is never observed
HeapBytes == {0}
FreshData == [Cells -> HeapBytes]
FreshTime == [Cells -> HeapBytes]
\* a pointer that is still NULL owns no cell
NoBuffer == << >>

\* ------------------------------------------------------------- start

\* uint8 highdata[MAX_SECTOR_SIZE]
HighCells == 0 .. (MAX_SECTOR_SIZE - 1)

\* the sector-mode globals while a low-level mode runs: -b and -s were not
\* given, -f is at its default and the boot sector was not read
HighUnused ==
    /\ sector_bytes = -1 /\ track_sectors = -1 /\ fill = 0
    /\ highdata = [k \in HighCells |-> 0]
    /\ s = 0 /\ flen = 0

\* main() has parsed the command line: a low-level mode, -t and -h given.
\* Globals hold their initialisers; the host owns vector 0Eh and the mask.
Init ==
    /\ mode \in Modes
    /\ tracks \in TrackArgs
    /\ sides \in SideArgs
    /\ \E host \in Hosts : device = host.device /\ hostMask = host.mask
    /\ lowpos = 0 /\ lowdata = NoBuffer /\ lowtime = NoBuffer
    /\ lowtime_on = 0 /\ floppy_irq_wait = 0 /\ floppy_c = 0
    /\ floppy_irq_old = "NULL" /\ pic0_mask_old = 0
    /\ out = << >> /\ rec = << >>
    /\ c = 0 /\ h = 0 /\ i = 0 /\ result = 0 /\ invalid = 0 /\ wres = 0
    /\ short_timeout = 0 /\ timestart = 0 /\ clock = 0 /\ sampled = TRUE
    /\ pc = "start" /\ wsite = "none" /\ xsite = "none"
    /\ vector = "host" /\ pic_mask = hostMask /\ iflag = 1
    /\ dor = DorReset(device) /\ fdc = "idle"
    /\ oob = FALSE /\ datareg = -1 /\ nirq = 0 /\ ports = << >>
    /\ sess = "none"
    /\ issued = 0 /\ missed = 0 /\ snap = NoBuffer /\ lret = 0 /\ rc = -1
    /\ stage = "none" /\ delivered = FALSE /\ timeout = 0
    /\ side_arg = IF mode \in MultiModes THEN -1 ELSE sides
    /\ HighUnused

\* ------------------------------------------------------------- handler

\* IRQ 6 reaches floppy_irq_ when vector 0Eh points at it, the PIC lets the
\* line through and the CPU accepts interrupts
HandlerInstalled ==
    vector = "floppy_irq" /\ iflag = 1 /\ ~MaskHasBit6(pic_mask)

\* variant: the comparison admits the position one past the buffer
BelowCapacityInclusive(p) == p <= MAX_TRACK_SIZE

\* cmp lowpos, MAX_TRACK_SIZE / jae data_finish
BelowCapacity(p) == p < MAX_TRACK_SIZE

\* variant: the position is advanced before the store
HandlerDataAdvanceFirst(b, t) ==
    /\ IF BelowCapacity(lowpos)
       THEN /\ lowdata' = Store(lowdata, lowpos + 1, b)
            /\ oob' = (oob \/ (lowpos + 1) \notin DOMAIN lowdata)
            /\ lowtime' = IF lowtime_on # 0
                          THEN Store(lowtime, lowpos + 1, t) ELSE lowtime
            /\ lowpos' = (lowpos + 1) % 65536
       ELSE UNCHANGED << lowdata, lowtime, lowpos, oob >>
    /\ UNCHANGED floppy_irq_wait

\* variant: the count byte read first goes to the high half of the word
HandlerDataHighByteFirst(b, t) ==
    /\ IF BelowCapacity(lowpos)
       THEN /\ lowdata' = Store(lowdata, lowpos, b)
            /\ oob' = (oob \/ lowpos \notin DOMAIN lowdata)
            /\ lowtime' = IF lowtime_on # 0
                          THEN Store(lowtime, lowpos,
                                     256 * (t % 256) + (t \div 256))
                          ELSE lowtime
            /\ lowpos' = (lowpos + 1) % 65536
       ELSE UNCHANGED << lowdata, lowtime, lowpos, oob >>
    /\ UNCHANGED floppy_irq_wait

\* floppy_irq_, data path: b is the byte in the data register, t the latched
\* PIT count (low byte read first, then high byte)
HandlerData(b, t) ==
    /\ IF BelowCapacity(lowpos)
       THEN /\ lowdata' = Store(lowdata, lowpos, b)
            /\ oob' = (oob \/ lowpos \notin DOMAIN lowdata)
            /\ lowtime' = IF lowtime_on # 0
                          THEN Store(lowtime, lowpos, t) ELSE lowtime
            /\ lowpos' = (lowpos + 1) % 65536
       ELSE UNCHANGED << lowdata, lowtime, lowpos, oob >>
    /\ UNCHANGED floppy_irq_wait

\* floppy_irq_, result path
HandlerResult ==
    /\ floppy_irq_wait' = 0
    /\ UNCHANGED gCap

\* variant: at capacity the handler returns without the acknowledge
HandlerPortsNoAckAtCapacity(data, below, timed) ==
    << "in_status" >> \o
    (IF data
     THEN << "in_data" >> \o
          (IF below
           THEN (IF timed THEN << "out_43", "in_40", "in_40" >> ELSE << >>)
                \o << "out_20" >>
           ELSE << >>)
     ELSE << "out_20" >>)

\* variant: the capacity test comes before the read of the data register
HandlerPortsTestFirst(data, below, timed) ==
    << "in_status" >> \o
    (IF data /\ below
     THEN << "in_data" >> \o
          (IF timed THEN << "out_43", "in_40", "in_40" >> ELSE << >>)
     ELSE << >>) \o
    << "out_20" >>

\* variant: the timer is latched and read whether or not timing is on
HandlerPortsAlwaysTimed(data, below, timed) ==
    << "in_status" >> \o
    (IF data
     THEN << "in_data" >> \o
          (IF below THEN << "out_43", "in_40", "in_40" >> ELSE << >>)
     ELSE << >>) \o
    << "out_20" >>

\* the port accesses of one invocation of floppy_irq_, in order: main status
\* (lowport|4); on a data interrupt the data register (lowport|5) and, below
\* capacity with timing on, the PIT latch command and the two count bytes;
\* last the end-of-interrupt command 0x20 to port 0x20
HandlerPorts(data, below, timed) ==
    << "in_status" >> \o
    (IF data
     THEN << "in_data" >> \o
          (IF below /\ timed THEN << "out_43", "in_40", "in_40" >>
           ELSE << >>)
     ELSE << >>) \o
    << "out_20" >>

\* floppy_irq_unused, the C handler kept for reference, data branch: data is
\* the byte from lowport|5, lo and hi the two bytes read from port 0x40;
\* lowtime[lowpos] = lo; lowtime[lowpos] |= hi << 8
UnusedData(data, lo, hi) ==
    /\ IF lowpos < MAX_TRACK_SIZE
       THEN /\ lowdata' = Store(lowdata, lowpos, data)
            /\ oob' = (oob \/ lowpos \notin DOMAIN lowdata)
            /\ IF lowtime_on # 0
               THEN lowtime' = Store(lowtime, lowpos,
                                     (lo + ((hi * 256) % 65536)) % 65536)
               ELSE lowtime' = lowtime
            /\ lowpos' = (lowpos + 1) % 65536
       ELSE UNCHANGED << lowdata, lowtime, lowpos, oob >>
    /\ UNCHANGED floppy_irq_wait

\* floppy_irq_unused, else branch: floppy_irq_wait = 0
UnusedResult ==
    /\ floppy_irq_wait' = 0
    /\ UNCHANGED << lowdata, lowtime, lowpos, oob >>

\* the inp / outp calls of floppy_irq_unused in the order it makes them
UnusedPorts(isdata, below, timed) ==
    IF isdata
    THEN << "in_status", "in_data" >> \o
         (IF below
          THEN (IF timed THEN << "out_43", "in_40", "in_40" >> ELSE << >>)
          ELSE << >>) \o
         << "out_20" >>
    ELSE << "in_status", "out_20" >>

\* the controller raises a data interrupt during the execution phase of
\* read-track (main status bit 0x20 set)
IrqData ==
    /\ HandlerInstalled /\ fdc = "exec"
    /\ HandlerData(DiskByte(c, h), TimerAt(lowpos))
    /\ datareg' = DiskByte(c, h)
    /\ nirq' = IF nirq <= MAX_TRACK_SIZE THEN nirq + 1 ELSE nirq
    /\ ports' = HandlerPorts(TRUE, BelowCapacity(lowpos), lowtime_on # 0)
    /\ UNCHANGED << gHw, gFdc, gProg, gMode, gWait, gStage, gCtl >>

\* the controller raises the interrupt that ends a command (bit 0x20 clear)
IrqResult ==
    /\ HandlerInstalled /\ fdc \in {"pending", "exec"}
    /\ HandlerResult
    /\ fdc' = "idle"
    /\ ports' = HandlerPorts(FALSE, FALSE, lowtime_on # 0)
    /\ UNCHANGED << gHw, dor, gProg, datareg, nirq, gMode, gWait, gStage,
                    gCtl >>

\* ------------------------------------------------------------- session

\* variant: the vector is swapped without _disable()
InstallVectorEnabled ==
    /\ pc = "o_install"
    /\ floppy_irq_old' = vector
    /\ vector' = "floppy_irq"
    /\ sess' = "open"
    /\ pc' = "o_mask"
    /\ UNCHANGED << gCap, floppy_irq_wait, iflag, pic_mask, pic0_mask_old,
                    gFdc, gProg, gEnv, gMode, gWait, gStage, wsite, xsite,
                    wres, stage, delivered >>

\* floppy_irq_install, first half: _disable(); floppy_irq_old =
\* _dos_getvect(0x0E); _dos_setvect(0x0E, floppy_irq)
InstallVector ==
    /\ pc = "o_install"
    /\ iflag' = 0
    /\ floppy_irq_old' = vector
    /\ vector' = "floppy_irq"
    /\ sess' = "open"
    /\ pc' = "o_mask"
    /\ UNCHANGED << gCap, floppy_irq_wait, pic_mask, pic0_mask_old, gFdc,
                    gProg, gEnv, gMode, gWait, gStage, wsite, xsite, wres,
                    stage, delivered >>

\* floppy_irq_install, second half: pic0_mask_old = inp(0x21); outp(0x21,
\* pic0_mask_old & ~(1<<6)); _enable()
InstallMask ==
    /\ pc = "o_mask"
    /\ pic0_mask_old' = pic_mask
    /\ pic_mask' = UnmaskIrq6(pic_mask)
    /\ iflag' = 1
    /\ pc' = "o_reset0"
    /\ UNCHANGED << gCap, floppy_irq_wait, vector, floppy_irq_old, gFdc,
                    gProg, gEnv, gMode, gWait, gStage, wsite, xsite, wres, sess, stage, delivered >>

\* low_close, first statement: outp(lowport|2, 0x00 | device)
CloseDor ==
    /\ pc = "x_dor"
    /\ dor' = DorReset(device)
    /\ fdc' = "idle"
    /\ pc' = "x_vector"
    /\ UNCHANGED << gCap, floppy_irq_wait, gHw, gProg, gEnv, gMode, gWait, gStage,
                    wsite, xsite, wres, sess, stage, delivered >>

\* floppy_irq_restore, first half: _disable(); _dos_setvect(0x0E,
\* floppy_irq_old)
RestoreVector ==
    /\ pc = "x_vector"
    /\ iflag' = 0
    /\ vector' = floppy_irq_old
    /\ pc' = "x_mask"
    /\ UNCHANGED << gCap, floppy_irq_wait, pic_mask, floppy_irq_old,
                    pic0_mask_old, gFdc, gProg, gEnv, gMode, gWait, gStage,
                    wsite, xsite, wres, sess, stage, delivered >>

\* floppy_irq_restore, second half: outp(0x21, pic0_mask_old);
\* floppy_irq_old = NULL; _enable(); low_close returns to its caller
RestoreMask ==
    /\ pc = "x_mask"
    /\ pic_mask' = pic0_mask_old
    /\ floppy_irq_old' = "NULL"
    /\ iflag' = 1
    /\ sess' = "closed" /\ stage' = "none"
    /\ datareg' = -1 /\ nirq' = 0 /\ ports' = << >>
    /\ pc' = xsite
    /\ UNCHANGED << gCap, floppy_irq_wait, vector, pic0_mask_old, gFdc,
                    gProg, gMode, gWait, gStage, wsite, xsite, wres,
                    delivered >>

\* the controller either takes a command and will answer it, or never does
\* (floppy_write gave up on a byte, drive absent, ...)
Answers(phase) == {phase, "idle"}

\* low_open: outp(lowport|2, 0x00 | device); delay(10)
OpenResetBegin ==
    /\ pc = "o_reset0"
    /\ dor' = DorReset(device)
    /\ fdc' = "idle"
    /\ pc' = "o_flag"
    /\ UNCHANGED << gCap, floppy_irq_wait, gHw, gProg, gEnv, gMode, gWait, gStage,
                    wsite, xsite, wres, sess, stage, delivered >>

\* floppy_irq_wait = 1 before the reset is released
OpenResetFlag ==
    /\ pc = "o_flag"
    /\ floppy_irq_wait' = 1
    /\ pc' = "o_reset1"
    /\ UNCHANGED << gCap, gHw, gFdc, gProg, gEnv, gMode, gWait, gStage,
                    wsite, xsite, wres, sess, stage, delivered >>

\* outp(lowport|2, 0x0C | device); floppy_irq_wait_timeout() is entered
OpenResetEnd ==
    /\ pc = "o_reset1"
    /\ dor' = DorEnable(device)
    /\ fdc' \in Answers("pending")
    /\ issued' = issued + 1
    /\ pc' = "w_poll" /\ wsite' = "o_resetchk"
    /\ UNCHANGED << gCap, floppy_irq_wait, gHw, gProg, gEnv, gMode, gWait,
                    i, floppy_c, missed, snap, lret, xsite, wres, sess, stage, delivered >>

\* if (floppy_irq_wait_timeout()) { low_close(); return LOW_RESET; }
OpenResetCheck ==
    /\ pc = "o_resetchk"
    /\ IF wres # 0
       THEN /\ lret' = LOW_RESET
            /\ pc' = "x_dor" /\ xsite' = "o_ret"
            /\ UNCHANGED stage
       ELSE /\ pc' = "o_sense" /\ stage' = "reset"
            /\ UNCHANGED << lret, xsite >>
    /\ UNCHANGED << gCap, floppy_irq_wait, gHw, gFdc, gProg, gEnv, gMode, gWait,
                    i, floppy_c, issued, missed, snap, wsite, wres, sess, delivered >>

\* floppy_irq_status: floppy_c = 0; if the opcode 0x08 cannot be written it
\* returns at once, otherwise floppy_c is the second byte read (rd), or 0xFF
\* when floppy_read gives up (~got)
StatusCylinder(wrote, got, rd) ==
    IF ~wrote THEN 0 ELSE IF ~got THEN 255 ELSE rd

\* four floppy_irq_status() calls in a row
OpenSense ==
    /\ pc = "o_sense"
    /\ \E wrote \in BOOLEAN, got \in BOOLEAN, rd \in Cyls :
          floppy_c' = StatusCylinder(wrote, got, rd)
    /\ pc' = "o_program"
    /\ UNCHANGED << gCap, floppy_irq_wait, gHw, gFdc, gProg, gEnv, gMode, gWait,
                    i, issued, missed, snap, lret, wsite, xsite, wres, sess, stage, delivered >>

\* data rate, the three specify bytes, motor on, delay(3); then i = 0
OpenProgram ==
    /\ pc = "o_program"
    /\ dor' = DorMotor(device)
    /\ i' = 0 /\ issued' = 0 /\ missed' = 0
    /\ pc' = "c_test" /\ stage' = "programmed"
    /\ UNCHANGED << gCap, floppy_irq_wait, gHw, fdc, gProg, gEnv, gMode, gWait,
                    floppy_c, snap, lret, wsite, xsite, wres, sess, delivered >>

\* variant: the calibrate loop runs one time too many
CalAgainInclusive(n) == n <= SEEK_RETRIES

\* the loop condition i < SEEK_RETRIES of the calibrate loop
CalAgain(n) == n < SEEK_RETRIES

\* for (i=0; i < SEEK_RETRIES; ++i): the loop test
CalTest ==
    /\ pc = "c_test"
    /\ pc' = IF CalAgain(i) THEN "c_flag" ELSE "c_after"
    /\ UNCHANGED << gCap, floppy_irq_wait, gHw, gFdc, gProg, gEnv, gMode, gWait,
                    gStage, wsite, xsite, wres, sess, stage, delivered >>

\* variant: the recalibrate is written without setting the flag first
CalFlagSkipped ==
    /\ pc = "c_flag"
    /\ pc' = "c_cmd"
    /\ UNCHANGED << gCap, floppy_irq_wait, gHw, gFdc, gProg, gEnv, gMode,
                    gWait, gStage, wsite, xsite, wres, sess, stage, delivered >>

\* floppy_irq_wait = 1 before the recalibrate is written
CalFlag ==
    /\ pc = "c_flag"
    /\ floppy_irq_wait' = 1
    /\ pc' = "c_cmd"
    /\ UNCHANGED << gCap, gHw, gFdc, gProg, gEnv, gMode, gWait, gStage,
                    wsite, xsite, wres, sess, stage, delivered >>

\* floppy_write(0x07); floppy_write(device); the wait is entered
CalCmd ==
    /\ pc = "c_cmd"
    /\ fdc' \in Answers("pending")
    /\ issued' = issued + 1
    /\ pc' = "w_poll" /\ wsite' = "c_chk"
    /\ UNCHANGED << gCap, floppy_irq_wait, gHw, dor, gProg, gEnv, gMode, gWait,
                    i, floppy_c, missed, snap, lret, xsite, wres, sess, stage, delivered >>

\* if (floppy_irq_wait_timeout()) { low_close(); return
\* LOW_CALIBRATE_TIMEOUT; }
CalCheck ==
    /\ pc = "c_chk"
    /\ IF wres # 0
       THEN /\ lret' = LOW_CALIBRATE_TIMEOUT
            /\ pc' = "x_dor" /\ xsite' = "o_ret"
       ELSE /\ pc' = "c_sense"
            /\ UNCHANGED << lret, xsite >>
    /\ UNCHANGED << gCap, floppy_irq_wait, gHw, gFdc, gProg, gEnv, gMode, gWait,
                    i, floppy_c, issued, missed, snap, wsite, wres, sess, stage, delivered >>

\* floppy_irq_status(); if (floppy_c == 0) break; otherwise ++i
CalSense ==
    /\ pc = "c_sense"
    /\ \E wrote \in BOOLEAN, got \in BOOLEAN, rd \in Cyls :
          /\ floppy_c' = StatusCylinder(wrote, got, rd)
          /\ delivered' = (wrote /\ got /\ rd = 0)
    /\ IF floppy_c' = 0
       THEN pc' = "c_after" /\ UNCHANGED << i, missed >>
       ELSE pc' = "c_test" /\ i' = i + 1 /\ missed' = missed + 1
    /\ UNCHANGED << gCap, floppy_irq_wait, gHw, gFdc, gProg, gEnv, gMode, gWait,
                    issued, snap, lret, wsite, xsite, wres, sess, stage >>

\* variant: LOW_CALIBRATE is returned without low_close()
CalAfterNoClose ==
    /\ pc = "c_after"
    /\ IF floppy_c # 0
       THEN /\ lret' = LOW_CALIBRATE
            /\ UNCHANGED stage
       ELSE /\ lret' = LOW_SUCCESS /\ stage' = "calibrated"
    /\ pc' = "o_ret"
    /\ delivered' = FALSE
    /\ UNCHANGED << gCap, floppy_irq_wait, gHw, gFdc, gProg, gEnv, gMode, gWait,
                    i, floppy_c, issued, missed, snap, wsite, xsite, wres,
                    sess >>

\* if (floppy_c != 0) { low_close(); return LOW_CALIBRATE; } return
\* LOW_SUCCESS;
CalAfter ==
    /\ pc = "c_after"
    /\ IF floppy_c # 0
       THEN /\ lret' = LOW_CALIBRATE
            /\ pc' = "x_dor" /\ xsite' = "o_ret"
            /\ UNCHANGED stage
       ELSE /\ lret' = LOW_SUCCESS /\ stage' = "calibrated"
            /\ pc' = "o_ret" /\ UNCHANGED xsite
    /\ delivered' = FALSE
    /\ UNCHANGED << gCap, floppy_irq_wait, gHw, gFdc, gProg, gEnv, gMode, gWait,
                    i, floppy_c, issued, missed, snap, wsite, wres, sess >>

\* low_open returns its value to the mode function; its locals are gone
OpenReturn ==
    /\ pc = "o_ret"
    /\ result' = lret
    /\ pc' = "m_opened"
    /\ i' = 0 /\ issued' = 0 /\ missed' = 0 /\ lret' = 0 /\ wres' = 0
    /\ UNCHANGED << gCap, floppy_irq_wait, gHw, gFdc, gProg, gEnv, c, h, invalid,
                    out, rec, rc, gWait, floppy_c, snap, wsite, xsite, sess, stage, delivered >>

\* variant: the seek loop runs one time too many
SeekAgainInclusive(n) == n <= SEEK_RETRIES

\* the loop condition i < SEEK_RETRIES of the seek loop
SeekAgain(n) == n < SEEK_RETRIES

\* low_read_track(track, side), seek loop test
SeekTest ==
    /\ pc = "s_test"
    /\ pc' = IF SeekAgain(i) THEN "s_flag" ELSE "s_after"
    /\ UNCHANGED << gCap, floppy_irq_wait, gHw, gFdc, gProg, gEnv, gMode, gWait,
                    gStage, wsite, xsite, wres, sess, stage, delivered >>

SeekFlag ==
    /\ pc = "s_flag"
    /\ floppy_irq_wait' = 1
    /\ pc' = "s_cmd"
    /\ UNCHANGED << gCap, gHw, gFdc, gProg, gEnv, gMode, gWait, gStage,
                    wsite, xsite, wres, sess, stage, delivered >>

\* the bytes of the seek command: 0x0F, (side << 2) | device, track
SeekCommand(track, side, dev) ==
    << 15, (4 * side + dev) % 256, track % 256 >>

\* the bytes of the read-track command: (encoding << 6) | 0x02 with the
\* default encoding 1, (side << 2) | device, track, side, 0, 0x07, 0xFF, 0,
\* 0xFF
ReadCommand(track, side, dev) ==
    << 66, (4 * side + dev) % 256, track % 256, side % 256, 0, 7, 255, 0,
       255 >>

\* floppy_write(0x0F); floppy_write((side << 2) | device);
\* floppy_write(track); the wait is entered
SeekCmd ==
    /\ pc = "s_cmd"
    /\ fdc' \in Answers("pending")
    /\ issued' = issued + 1
    /\ pc' = "w_poll" /\ wsite' = "s_chk"
    /\ UNCHANGED << gCap, floppy_irq_wait, gHw, dor, gProg, gEnv, gMode, gWait,
                    i, floppy_c, missed, snap, lret, xsite, wres, sess, stage, delivered >>

\* variant: a timeout of the seek wait is not returned, the status is
\* sensed all the same
SeekCheckIgnoresTimeout ==
    /\ pc = "s_chk"
    /\ pc' = "s_sense"
    /\ UNCHANGED << gCap, floppy_irq_wait, gHw, gFdc, gProg, gEnv, gMode, gWait,
                    i, floppy_c, issued, missed, snap, lret, wsite, xsite,
                    wres, sess, stage, delivered >>

\* if (floppy_irq_wait_timeout()) return LOW_SEEK_TIMEOUT;
SeekCheck ==
    /\ pc = "s_chk"
    /\ IF wres # 0
       THEN lret' = LOW_SEEK_TIMEOUT /\ pc' = "r_ret"
       ELSE pc' = "s_sense" /\ UNCHANGED lret
    /\ UNCHANGED << gCap, floppy_irq_wait, gHw, gFdc, gProg, gEnv, gMode, gWait,
                    i, floppy_c, issued, missed, snap, wsite, xsite, wres,
                    sess, stage, delivered >>

\* floppy_irq_status(); if (floppy_c == track) break; otherwise ++i
SeekSense ==
    /\ pc = "s_sense"
    /\ \E wrote \in BOOLEAN, got \in BOOLEAN, rd \in Cyls :
          /\ floppy_c' = StatusCylinder(wrote, got, rd)
          /\ delivered' = (wrote /\ got /\ rd = c)
    /\ IF floppy_c' = c
       THEN pc' = "s_after" /\ UNCHANGED << i, missed >>
       ELSE pc' = "s_test" /\ i' = i + 1 /\ missed' = missed + 1
    /\ UNCHANGED << gCap, floppy_irq_wait, gHw, gFdc, gProg, gEnv, gMode, gWait,
                    issued, snap, lret, wsite, xsite, wres, sess, stage >>

\* if (floppy_c != track) return LOW_SEEK; delay(3);
SeekAfter ==
    /\ pc = "s_after"
    /\ IF floppy_c # c
       THEN lret' = LOW_SEEK /\ pc' = "r_ret" /\ UNCHANGED stage
       ELSE pc' = "r_zero" /\ stage' = "sought" /\ UNCHANGED lret
    /\ delivered' = FALSE
    /\ UNCHANGED << gCap, floppy_irq_wait, gHw, gFdc, gProg, gEnv, gMode, gWait,
                    i, floppy_c, issued, missed, snap, wsite, xsite, wres,
                    sess >>

\* lowpos = 0; i = 0
ReadZero ==
    /\ pc = "r_zero"
    /\ lowpos' = 0
    /\ i' = 0 /\ issued' = 0 /\ missed' = 0
    /\ snap' = lowdata
    /\ pc' = "r_test"
    /\ UNCHANGED << lowdata, lowtime, oob, floppy_irq_wait, gHw,
                    gFdc, gProg, gEnv, gMode, gWait, floppy_c, lret, wsite, xsite,
                    wres, sess, stage, delivered >>

\* variant: the read loop retries whatever was captured
ReadAgainAnyPosition(pos, n) == n < READ_RETRIES

\* variant: the read loop runs one time too many
ReadAgainInclusive(pos, n) == pos = 0 /\ n <= READ_RETRIES

\* the loop condition lowpos==0 && i<READ_RETRIES
ReadAgain(pos, n) == pos = 0 /\ n < READ_RETRIES

ReadTest ==
    /\ pc = "r_test"
    /\ pc' = IF ReadAgain(lowpos, i) THEN "r_flag" ELSE "r_after"
    /\ UNCHANGED << gCap, floppy_irq_wait, gHw, gFdc, gProg, gEnv, gMode, gWait,
                    gStage, wsite, xsite, wres, sess, stage, delivered >>

ReadFlag ==
    /\ pc = "r_flag"
    /\ floppy_irq_wait' = 1
    /\ pc' = "r_cmd"
    /\ UNCHANGED << gCap, gHw, gFdc, gProg, gEnv, gMode, gWait, gStage,
                    wsite, xsite, wres, sess, stage, delivered >>

\* the nine floppy_write calls of the read-track command; the wait is entered
ReadCmd ==
    /\ pc = "r_cmd"
    /\ fdc' \in Answers("exec")
    /\ issued' = issued + 1
    /\ pc' = "w_poll" /\ wsite' = "r_chk"
    /\ UNCHANGED << gCap, floppy_irq_wait, gHw, dor, gProg, gEnv, gMode, gWait,
                    i, floppy_c, missed, snap, lret, xsite, wres, sess, stage, delivered >>

\* variant: a timeout of the read-track wait is not returned, the loop
\* goes on to the results and its test of the position
ReadCheckIgnoresTimeout ==
    /\ pc = "r_chk"
    /\ pc' = "r_results"
    /\ UNCHANGED << gCap, floppy_irq_wait, gHw, gFdc, gProg, gEnv, gMode, gWait,
                    i, floppy_c, issued, missed, snap, lret, wsite, xsite,
                    wres, sess, stage, delivered >>

\* variant: what was captured is dropped when the wait times out
ReadCheckDropsPartial ==
    /\ pc = "r_chk"
    /\ IF wres # 0
       THEN lret' = LOW_TRACK_TIMEOUT /\ pc' = "r_ret" /\ lowpos' = 0
       ELSE pc' = "r_results" /\ UNCHANGED << lret, lowpos >>
    /\ UNCHANGED << lowdata, lowtime, oob, floppy_irq_wait, gHw, gFdc, gProg,
                    gEnv, gMode, gWait, i, floppy_c, issued, missed, snap,
                    wsite, xsite, wres, sess, stage, delivered >>

\* if (floppy_irq_wait_timeout()) return LOW_TRACK_TIMEOUT;
ReadCheck ==
    /\ pc = "r_chk"
    /\ IF wres # 0
       THEN lret' = LOW_TRACK_TIMEOUT /\ pc' = "r_ret"
       ELSE pc' = "r_results" /\ UNCHANGED lret
    /\ UNCHANGED << gCap, floppy_irq_wait, gHw, gFdc, gProg, gEnv, gMode, gWait,
                    i, floppy_c, issued, missed, snap, wsite, xsite, wres,
                    sess, stage, delivered >>

\* the seven floppy_read calls; floppy_c is the fourth: the cylinder the
\* controller was on, or 0xFF when floppy_read gives up; ++i
ReadResults ==
    /\ pc = "r_results"
    /\ floppy_c' \in {c, 255}
    /\ i' = i + 1
    /\ pc' = "r_test"
    /\ UNCHANGED << gCap, floppy_irq_wait, gHw, gFdc, gProg, gEnv, gMode, gWait,
                    issued, missed, snap, lret, wsite, xsite, wres, sess, stage, delivered >>

\* if (lowpos < 1) return LOW_EMPTY; return LOW_SUCCESS;
ReadAfter ==
    /\ pc = "r_after"
    /\ lret' = IF lowpos < 1 THEN LOW_EMPTY ELSE LOW_SUCCESS
    /\ pc' = "r_ret"
    /\ UNCHANGED << gCap, floppy_irq_wait, gHw, gFdc, gProg, gEnv, gMode, gWait,
                    i, floppy_c, issued, missed, snap, wsite, xsite, wres,
                    sess, stage, delivered >>

\* low_read_track returns its value to the mode function; its locals are gone
ReadReturn ==
    /\ pc = "r_ret"
    /\ result' = lret
    /\ pc' = "m_err"
    /\ i' = 0 /\ issued' = 0 /\ missed' = 0 /\ lret' = 0 /\ wres' = 0
    /\ snap' = NoBuffer
    /\ UNCHANGED << gCap, floppy_irq_wait, gHw, gFdc, gProg, gEnv, c, h, invalid,
                    out, rec, rc, gWait, floppy_c, wsite, xsite, sess, stage, delivered >>

\* ------------------------------------------------------------- the wait

\* floppy_irq_wait_timeout as the session sees it: a poll that finds the flag
\* clear returns 0; when the poll counter wraps the clock is consulted
WaitPoll ==
    /\ pc = "w_poll"
    /\ IF floppy_irq_wait = 0
       THEN wres' = 0 /\ pc' = wsite /\ wsite' = "none"
       ELSE pc' = "w_clock" /\ UNCHANGED << wres, wsite >>
    /\ UNCHANGED << gCap, floppy_irq_wait, gHw, gFdc, gProg, gEnv, gMode, gWait,
                    gStage, xsite, sess, stage, delivered >>

\* the deadline test: either LOW_TIMEOUT ticks have passed since the first
\* sample (break; return -1) or the polling goes on
WaitClock ==
    /\ pc = "w_clock"
    /\ \/ wres' = -1 /\ pc' = wsite /\ wsite' = "none" /\ stage' = "timeout"
       \/ pc' = "w_poll" /\ UNCHANGED << wres, wsite, stage >>
    /\ UNCHANGED << gCap, floppy_irq_wait, gHw, gFdc, gProg, gEnv, gMode, gWait,
                    gStage, xsite, sess, delivered >>

\* ------------------------------------------------------------- modes

\* if (sides <= 0 || sides > 2) sides = 2;   (mode_low_start, which all four
\* low-level modes call)
StartSides(n) == IF n <= 0 \/ n > 2 THEN 2 ELSE n

TimedMode(m) == m \in {"full", "ftrack"}

\* mode_low / mode_full / mode_track / mode_ftrack up to the first statement
\* of the loop: mode_low_start, the buffers, lowtime_on, open_output
ModeStart ==
    /\ pc = "start"
    /\ sides' = StartSides(sides)
    /\ lowdata' \in FreshData
    /\ lowtime' \in (IF TimedMode(mode) THEN FreshTime ELSE {NoBuffer})
    /\ lowtime_on' = IF TimedMode(mode) THEN 1 ELSE 0
    /\ out' = << >>
    /\ invalid' = 0
    /\ IF mode \in MultiModes
       THEN c' = 0 /\ h' = 0 /\ pc' = "m_loop"
       ELSE pc' = "o_install" /\ UNCHANGED << c, h >>
    /\ UNCHANGED << lowpos, oob, gEnv, floppy_irq_wait, gHw, gFdc,
                    device, tracks, mode, hostMask, side_arg, timeout, gHigh,
                    result,
                    rec, rc, gWait,
                    gStage, wsite, xsite, wres, sess, stage, delivered >>

\* what the mode function returns after the loop
ModeResult(inv) == IF inv # 0 THEN RESULT_PARTIAL ELSE RESULT_SUCCESS

\* mode_low_finish: for (c=0; c<tracks; ++c) for (h=0; h<sides; ++h), then
\* result = low_open()
ModeLoop ==
    /\ pc = "m_loop"
    /\ IF c < tracks
       THEN pc' = "o_install" /\ UNCHANGED rc
       ELSE pc' = "m_done" /\ rc' = ModeResult(invalid)
    /\ UNCHANGED << gCap, floppy_irq_wait, gHw, gFdc, gProg, gEnv, c, h, result,
                    invalid, out, rec, gWait, gStage, wsite, xsite, wres,
                    sess, stage, delivered >>

\* variant: the track is read whatever low_open returned
ModeOpenedReadsAnyway ==
    /\ pc = "m_opened"
    /\ IF mode \in MultiModes
       THEN /\ pc' = "s_test"
            /\ UNCHANGED << c, h, rc >>
       ELSE /\ pc' = "s_test" /\ c' = tracks /\ h' = sides /\ UNCHANGED rc
    /\ UNCHANGED << gCap, floppy_irq_wait, gHw, gFdc, gProg, gEnv, result, invalid,
                    out, rec, gWait, gStage, wsite, xsite, wres, sess, stage,
                    delivered >>

\* variant: a multi-track run gives up at the first low_open that fails
ModeOpenedAborts ==
    /\ pc = "m_opened"
    /\ IF result # 0
       THEN pc' = "m_done" /\ rc' = RESULT_LOW /\ UNCHANGED << c, h >>
       ELSE IF mode \in MultiModes
            THEN pc' = "s_test" /\ UNCHANGED << c, h, rc >>
            ELSE pc' = "s_test" /\ c' = tracks /\ h' = sides /\ UNCHANGED rc
    /\ UNCHANGED << gCap, floppy_irq_wait, gHw, gFdc, gProg, gEnv, result, invalid,
                    out, rec, gWait, gStage, wsite, xsite, wres, sess, stage, delivered >>

\* after low_open: mode_low_finish goes on to low_read_track(c,h) only when
\* result is 0; mode_track_finish returns RESULT_LOW on an error and
\* otherwise sets c = tracks, h = sides and reads
ModeOpened ==
    /\ pc = "m_opened"
    /\ IF mode \in MultiModes
       THEN /\ pc' = IF result = 0 THEN "s_test" ELSE "m_err"
            /\ UNCHANGED << c, h, rc >>
       ELSE IF result # 0
            THEN pc' = "m_done" /\ rc' = RESULT_LOW /\ UNCHANGED << c, h >>
            ELSE pc' = "s_test" /\ c' = tracks /\ h' = sides /\ UNCHANGED rc
    /\ UNCHANGED << gCap, floppy_irq_wait, gHw, gFdc, gProg, gEnv, result, invalid,
                    out, rec, gWait, gStage, wsite, xsite, wres, sess, stage, delivered >>

\* variant: the loop body goes on to the write without closing
ModeErrNoClose ==
    /\ pc = "m_err"
    /\ invalid' = IF result # 0 THEN invalid + 1 ELSE invalid
    /\ pc' = "m_write"
    /\ UNCHANGED << gCap, floppy_irq_wait, gHw, gFdc, gProg, gEnv, c, h, result,
                    out, rec, rc, gWait, gStage, wsite, xsite, wres, sess, stage, delivered >>

\* if (result) ++invalid; then low_close() is called
ModeErr ==
    /\ pc = "m_err"
    /\ invalid' = IF result # 0 THEN invalid + 1 ELSE invalid
    /\ pc' = "x_dor" /\ xsite' = "m_write"
    /\ UNCHANGED << gCap, floppy_irq_wait, gHw, gFdc, gProg, gEnv, c, h, result,
                    out, rec, rc, gWait, gStage, wsite, wres, sess, stage, delivered >>

\* a read of buffer cell k
Peek(buf, k) == IF k \in DOMAIN buf THEN buf[k] ELSE 0

\* t = 0xFFFF - lowtime[0]; lowtime[i] = (0xFFFF - lowtime[i]) - t for
\* i < lowpos, in uint16 arithmetic
Normalized(tm, n) ==
    LET t == (65535 - Peek(tm, 0)) % 65536
    IN  [k \in DOMAIN tm |->
            IF k < n THEN ((65535 - tm[k]) - t) % 65536 ELSE tm[k]]

RECURSIVE Flat(_, _, _)
\* the bytes fwrite takes from cells 0 .. n-1, each cell given by enc
Flat(buf, n, wide) ==
    IF n = 0 THEN << >>
    ELSE Flat(buf, n - 1, wide) \o
         (IF wide THEN LE16(Peek(buf, n - 1)) ELSE << Peek(buf, n - 1) >>)

\* variant: the timing values go out one byte each
TrackBytesNarrowTiming(pos, data, tm, timed) ==
    LE32(pos) \o Flat(data, pos, FALSE) \o
    (IF timed THEN Flat(Normalized(tm, pos), pos, FALSE) ELSE << >>)

\* the bytes one call of mode_low_track_write appends to the file
TrackBytes(pos, data, tm, timed) ==
    LE32(pos) \o Flat(data, pos, FALSE) \o
    (IF timed THEN Flat(Normalized(tm, pos), pos, TRUE) ELSE << >>)

\* mode_low_track_write(), called right after low_close()
ModeWrite ==
    /\ pc = "m_write"
    /\ out' = TrackBytes(lowpos, lowdata, lowtime, lowtime_on # 0)
    /\ lowtime' = IF lowtime_on # 0 THEN Normalized(lowtime, lowpos)
                  ELSE lowtime
    /\ rec' = Append(rec, << c, h >>)
    /\ pc' = "m_next"
    /\ UNCHANGED << lowpos, lowdata, oob, floppy_irq_wait, gHw,
                    gFdc, gProg, gEnv, c, h, result, invalid, rc, gWait, gStage,
                    wsite, xsite, wres, sess, stage, delivered >>

\* mode_low_finish: next (c,h); mode_track_finish: return. result is not
\* read again before low_open assigns it, so its old value is dropped
ModeNext ==
    /\ pc = "m_next"
    /\ IF mode \in MultiModes
       THEN /\ IF h + 1 < sides
               THEN h' = h + 1 /\ UNCHANGED c
               ELSE h' = 0 /\ c' = c + 1
            /\ pc' = "m_loop" /\ UNCHANGED rc
       ELSE pc' = "m_done" /\ rc' = ModeResult(invalid) /\ UNCHANGED << c, h >>
    /\ result' = 0
    /\ UNCHANGED << gCap, floppy_irq_wait, gHw, gFdc, gProg, gEnv, invalid,
                    out, rec, gWait, gStage, wsite, xsite, wres, sess, stage, delivered >>

\* ------------------------------------------------------------- program

Next ==
    \/ IrqData \/ IrqResult
    \/ ModeStart \/ ModeLoop \/ ModeOpened \/ ModeErr \/ ModeWrite \/ ModeNext
    \/ InstallVector \/ InstallMask \/ CloseDor \/ RestoreVector
    \/ RestoreMask
    \/ OpenResetBegin \/ OpenResetFlag \/ OpenResetEnd \/ OpenResetCheck
    \/ OpenSense \/ OpenProgram
    \/ CalTest \/ CalFlag \/ CalCmd \/ CalCheck \/ CalSense \/ CalAfter
    \/ OpenReturn
    \/ SeekTest \/ SeekFlag \/ SeekCmd \/ SeekCheck \/ SeekSense \/ SeekAfter
    \/ ReadZero \/ ReadTest \/ ReadFlag \/ ReadCmd \/ ReadCheck
    \/ ReadResults \/ ReadAfter \/ ReadReturn
    \/ WaitPoll \/ WaitClock

Spec == Init /\ [][Next]_vars

\* ------------------------------------------------------------- the wait, timed

\* floppy_irq_wait_timeout with its counters and the BIOS clock.  Spec above
\* takes the deadline test as an outcome; here the tick counter runs.

\* wait entry: short_timeout, timestart = 0
TimedEnter ==
    /\ pc = "wd_enter"
    /\ short_timeout' = 0 /\ timestart' = 0
    /\ pc' = "wd_poll"
    /\ UNCHANGED << gCap, floppy_irq_wait, gHw, gFdc, gProg, gEnv, gMode,
                    clock, sampled, gStage, wsite, xsite, wres, sess, stage, delivered >>

\* variant: the flag is looked at only once the clock has been sampled
TimedPollAfterSample ==
    /\ pc = "wd_poll"
    /\ IF floppy_irq_wait = 0 /\ timestart # 0
       THEN wres' = 0 /\ pc' = "wd_ret" /\ UNCHANGED short_timeout
       ELSE /\ short_timeout' = (short_timeout + 1) % SHORT_POLLS
            /\ pc' = IF short_timeout' = 0 THEN "wd_clock" ELSE "wd_poll"
            /\ UNCHANGED wres
    /\ UNCHANGED << gCap, floppy_irq_wait, gHw, gFdc, gProg, gEnv, gMode,
                    timestart, clock, sampled, gStage, wsite, xsite, sess, stage, delivered >>

\* if (!floppy_irq_wait) return 0; ++short_timeout; while (short_timeout)
TimedPoll ==
    /\ pc = "wd_poll"
    /\ IF floppy_irq_wait = 0
       THEN wres' = 0 /\ pc' = "wd_ret" /\ UNCHANGED short_timeout
       ELSE /\ short_timeout' = (short_timeout + 1) % SHORT_POLLS
            /\ pc' = IF short_timeout' = 0 THEN "wd_clock" ELSE "wd_poll"
            /\ UNCHANGED wres
    /\ UNCHANGED << gCap, floppy_irq_wait, gHw, gFdc, gProg, gEnv, gMode,
                    timestart, clock, sampled, gStage, wsite, xsite, sess, stage, delivered >>

\* timenow - timestart >= LOW_TIMEOUT, in signed long arithmetic
Expired(start, now) == now - start >= LOW_TIMEOUT

\* if (timestart == 0) take the first sample; else compare with the deadline
TimedClock ==
    /\ pc = "wd_clock"
    /\ IF timestart = 0
       THEN timestart' = clock /\ pc' = "wd_poll"
       ELSE /\ pc' = IF Expired(timestart, clock) THEN "wd_break"
                     ELSE "wd_poll"
            /\ UNCHANGED timestart
    /\ sampled' = TRUE
    /\ UNCHANGED << gCap, floppy_irq_wait, gHw, gFdc, gProg, gEnv, gMode,
                    short_timeout, clock, gStage, wsite, xsite, wres, sess, stage, delivered >>

\* break; return -1;
TimedBreak ==
    /\ pc = "wd_break"
    /\ wres' = -1
    /\ pc' = "wd_ret"
    /\ UNCHANGED << gCap, floppy_irq_wait, gHw, gFdc, gProg, gEnv, gMode,
                    gWait, gStage, wsite, xsite, sess, stage, delivered >>

\* the timer interrupt advances the BIOS tick counter, which restarts at 0
\* at midnight.  The 65536 polls between two reads of the counter take a
\* vanishing part of the day, so no span of counts that matters goes by
\* unread: at this scale the program reads every count.
Tick ==
    /\ pc \in {"wd_enter", "wd_poll", "wd_clock", "wd_break"}
    /\ sampled
    /\ clock' = (clock + 1) % DAY_TICKS
    /\ sampled' = FALSE
    /\ UNCHANGED << gCap, floppy_irq_wait, gHw, gFdc, gProg, gEnv, gMode,
                    short_timeout, timestart, gStage, pc, wsite, xsite, wres,
                    sess, stage, delivered >>

\* tick counts at which the wait begins: midnight, just after, the last
\* moments from which the deadline still falls before midnight, and later
ClockStarts == {0, 1, DAY_TICKS - LOW_TIMEOUT - 1, DAY_TICKS - LOW_TIMEOUT,
                DAY_TICKS - 1}

\* low_open has installed the handler, set the flag and released the reset;
\* the wait is about to be entered
InitWait ==
    /\ mode = "low" /\ tracks = 1 /\ sides = 1
    /\ \E host \in Hosts : device = host.device /\ hostMask = host.mask
    /\ lowpos = 0 /\ lowdata \in FreshData /\ lowtime = NoBuffer
    /\ lowtime_on = 0 /\ floppy_irq_wait = 1 /\ floppy_c = 0
    /\ floppy_irq_old = "host" /\ pic0_mask_old = hostMask
    /\ out = << >> /\ rec = << >>
    /\ c = 0 /\ h = 0 /\ i = 0 /\ result = 0 /\ invalid = 0 /\ wres = 0
    /\ short_timeout = 0 /\ timestart = 0 /\ clock \in ClockStarts
    /\ sampled = TRUE
    /\ pc = "wd_enter" /\ wsite = "o_resetchk" /\ xsite = "none"
    /\ vector = "floppy_irq" /\ pic_mask = UnmaskIrq6(hostMask) /\ iflag = 1
    /\ dor = DorEnable(device) /\ fdc \in Answers("pending")
    /\ oob = FALSE /\ datareg = -1 /\ nirq = 0 /\ ports = << >>
    /\ sess = "open"
    /\ issued = 1 /\ missed = 0 /\ snap = NoBuffer /\ lret = 0 /\ rc = -1
    /\ stage = "none" /\ delivered = FALSE /\ timeout = 0
    /\ side_arg = IF mode \in MultiModes THEN -1 ELSE sides
    /\ HighUnused

WaitStep == TimedEnter \/ TimedPoll \/ TimedClock \/ TimedBreak

NextWait == WaitStep \/ Tick \/ IrqResult

\* the foreground keeps running and the clock keeps ticking; nothing obliges
\* the controller to interrupt
SpecWait == InitWait /\ [][NextWait]_vars /\ WF_vars(WaitStep) /\ WF_vars(Tick)

\* ------------------------------------------------------- the timing normalizer

\* mode_low_track_write as a function of the buffers it is given: the raw
\* samples of a timed capture, and then the same buffer once more, as happens
\* when the next pair fails before low_read_track resets the position

\* samples in the timing buffer
NormLen == 3
\* 16-bit PIT counts: the ends of the range, a neighbour, one in between
Samples == {0, 1, 30000, 65535}

\* a timed capture of 1 .. NormLen bytes has ended and the session is closed
InitNorm ==
    /\ mode = "full" /\ tracks = 1 /\ sides = 2
    /\ \E host \in Hosts : device = host.device /\ hostMask = host.mask
    /\ lowpos \in 1..NormLen
    /\ lowdata = [k \in 0..(NormLen - 1) |-> DiskByte(0, 0)]
    /\ lowtime \in [0..(NormLen - 1) -> Samples]
    /\ lowtime_on = 1 /\ floppy_irq_wait = 0 /\ floppy_c = 0
    /\ floppy_irq_old = "NULL" /\ pic0_mask_old = hostMask
    /\ out = << >> /\ rec = << >>
    /\ c = 0 /\ h = 0 /\ i = 0 /\ result = 0 /\ invalid = 0 /\ wres = 0
    /\ short_timeout = 0 /\ timestart = 0 /\ clock = 0 /\ sampled = TRUE
    /\ pc = "n_raw" /\ wsite = "none" /\ xsite = "none"
    /\ vector = "host" /\ pic_mask = hostMask /\ iflag = 1
    /\ dor = DorReset(device) /\ fdc = "idle"
    /\ oob = FALSE /\ datareg = -1 /\ nirq = 0 /\ ports = << >>
    /\ sess = "closed"
    /\ issued = 0 /\ missed = 0 /\ snap = NoBuffer /\ lret = 0 /\ rc = -1
    /\ stage = "none" /\ delivered = FALSE /\ timeout = 0
    /\ side_arg = IF mode \in MultiModes THEN -1 ELSE sides
    /\ HighUnused

\* mode_low_track_write(); snap keeps the timing buffer it was given
NormWrite ==
    /\ pc \in {"n_raw", "n_once"}
    /\ out' = TrackBytes(lowpos, lowdata, lowtime, lowtime_on # 0)
    /\ lowtime' = IF lowtime_on # 0 THEN Normalized(lowtime, lowpos)
                  ELSE lowtime
    /\ snap' = lowtime
    /\ rec' = Append(rec, << c, h >>)
    /\ pc' = IF pc = "n_raw" THEN "n_once" ELSE "n_twice"
    /\ UNCHANGED << lowpos, lowdata, oob, floppy_irq_wait, gHw,
                    gFdc, gProg, gEnv, c, h, result, invalid, rc, gWait,
                    i, floppy_c, issued, missed, lret, wsite, xsite, wres,
                    sess, stage, delivered >>

NextNorm == NormWrite

SpecNorm == InitNorm /\ [][NextNorm]_vars

\* ------------------------------------------------------- the byte transfers

\* floppy_write and floppy_read poll by poll.  The calls are those of low_open
\* between the reset and the motor: the last floppy_irq_status (one write,
\* two reads) and the three floppy_write calls of the specify command.
\* i is the call, ports the port accesses of the call, wres its return value,
\* issued the calls begun and missed the calls that gave up.
Script == << "write", "read", "read", "write", "write", "write" >>

\* a read of the main status register (lowport|4), by the value of its
\* bit 0x80
Status(ready) == IF ready THEN "in_status_ready" ELSE "in_status"

\* the call in turn is entered: uint16 timeout = 0.  floppy_irq_status first
\* sets floppy_c = 0.
ByteCall ==
    /\ pc = "b_call"
    /\ IF i <= Len(Script)
       THEN /\ timeout' = 0 /\ ports' = << >>
            /\ issued' = issued + 1
            /\ floppy_c' = IF i = 1 THEN 0 ELSE floppy_c
            /\ pc' = "b_poll"
       ELSE /\ pc' = "b_done"
            /\ UNCHANGED << timeout, ports, issued, floppy_c >>
    /\ UNCHANGED << gCap, floppy_irq_wait, gHw, gFdc, lowtime_on, device,
                    tracks, sides, mode, hostMask, side_arg, gHigh, datareg,
                    nirq, gMode, gWait, i, missed, snap, lret, wsite, xsite,
                    wres, sess, stage, delivered >>

\* variant: when the counter wraps the byte is transferred all the same
BytePollAlwaysTransfers ==
    /\ pc = "b_poll"
    /\ \E ready \in BOOLEAN, rd \in Cyls :
          IF ready \/ (timeout + 1) % BYTE_POLLS = 0
          THEN /\ IF Script[i] = "write"
                  THEN /\ ports' = ports \o << Status(ready), "out_data" >>
                       /\ wres' = 0
                  ELSE /\ ports' = ports \o << Status(ready), "in_data" >>
                       /\ wres' = rd
               /\ pc' = "b_ret"
               /\ UNCHANGED << timeout, missed >>
          ELSE /\ ports' = Append(ports, Status(ready))
               /\ timeout' = (timeout + 1) % BYTE_POLLS
               /\ UNCHANGED << pc, wres, missed >>
    /\ UNCHANGED << gCap, floppy_irq_wait, gHw, gFdc, lowtime_on, device,
                    tracks, sides, mode, hostMask, side_arg, gHigh, datareg,
                    nirq, gMode, gWait, i, floppy_c, issued, snap, lret,
                    wsite, xsite, sess, stage, delivered >>

\* one turn of the do-while loop: inp(lowport|4) & 0x80; when the bit is set
\* the byte goes through lowport|5 and the call returns (0, or the byte read);
\* otherwise ++timeout, and when it is 0 again the call returns -1, or 0xFF
\* from floppy_read
BytePoll ==
    /\ pc = "b_poll"
    /\ \E ready \in BOOLEAN, rd \in Cyls :
          IF ready
          THEN /\ IF Script[i] = "write"
                  THEN /\ ports' = ports \o << Status(ready), "out_data" >>
                       /\ wres' = 0
                  ELSE /\ ports' = ports \o << Status(ready), "in_data" >>
                       /\ wres' = rd
               /\ pc' = "b_ret"
               /\ UNCHANGED << timeout, missed >>
          ELSE /\ ports' = Append(ports, Status(ready))
               /\ timeout' = (timeout + 1) % BYTE_POLLS
               /\ IF timeout' = 0
                  THEN /\ wres' = IF Script[i] = "write" THEN -1 ELSE 255
                       /\ missed' = missed + 1
                       /\ pc' = "b_ret"
                  ELSE UNCHANGED << pc, wres, missed >>
    /\ UNCHANGED << gCap, floppy_irq_wait, gHw, gFdc, lowtime_on, device,
                    tracks, sides, mode, hostMask, side_arg, gHigh, datareg,
                    nirq, gMode, gWait, i, floppy_c, issued, snap, lret,
                    wsite, xsite, sess, stage, delivered >>

\* the caller takes the return value.  floppy_irq_status: if
\* (floppy_write(0x08)) return -1; floppy_st0 = floppy_read(); floppy_c =
\* floppy_read().  low_open ignores what the specify writes return.
ByteReturn ==
    /\ pc = "b_ret"
    /\ i' = IF i = 1 /\ wres # 0 THEN 4 ELSE i + 1
    /\ floppy_c' = IF i = 3 THEN wres ELSE floppy_c
    /\ pc' = "b_call"
    /\ UNCHANGED << gCap, floppy_irq_wait, gHw, gFdc, gProg, gEnv, gMode, gWait,
                    issued, missed, snap, lret, wsite, xsite, wres, sess,
                    stage, delivered >>

\* low_open has seen the reset interrupt and made three of its four
\* floppy_irq_status calls
InitByte ==
    /\ mode \in Modes /\ tracks \in TrackArgs /\ sides \in {1, 2}
    /\ \E host \in Hosts : device = host.device /\ hostMask = host.mask
    /\ lowpos = 0 /\ lowdata \in FreshData
    /\ lowtime \in (IF TimedMode(mode) THEN FreshTime ELSE {NoBuffer})
    /\ lowtime_on = (IF TimedMode(mode) THEN 1 ELSE 0)
    /\ floppy_irq_wait = 0 /\ floppy_c \in {0, 255}
    /\ floppy_irq_old = "host" /\ pic0_mask_old = hostMask
    /\ out = << >> /\ rec = << >>
    /\ c = 0 /\ h = 0 /\ i = 1 /\ result = 0 /\ invalid = 0 /\ wres = 0
    /\ short_timeout = 0 /\ timestart = 0 /\ clock = 0 /\ sampled = TRUE
    /\ pc = "b_call" /\ wsite = "none" /\ xsite = "none"
    /\ vector = "floppy_irq" /\ pic_mask = UnmaskIrq6(hostMask) /\ iflag = 1
    /\ dor = DorEnable(device) /\ fdc = "idle"
    /\ oob = FALSE /\ datareg = -1 /\ nirq = 0 /\ ports = << >>
    /\ sess = "open"
    /\ issued = 0 /\ missed = 0 /\ snap = NoBuffer /\ lret = 0 /\ rc = -1
    /\ stage = "reset" /\ delivered = FALSE /\ timeout = 0
    /\ side_arg = IF mode \in MultiModes THEN -1 ELSE sides
    /\ HighUnused

NextByte == ByteCall \/ BytePoll \/ ByteReturn

SpecByte == InitByte /\ [][NextByte]_vars

\* ------------------------------------------------------- sector (high) mode

\* memset(highdata, fill & 0xFF, sizeof(highdata))
FillBlock(f) == [k \in HighCells |-> f % 256]

\* what the disk holds in sector sc of track cy, side hd, as the BIOS
\* transfers it to diskinfo.buffer: never a fill value of FillArgs
DiskSector(cy, hd, sc) == [k \in HighCells |-> 16 * (cy + 1) + 4 * hd + sc]

\* fwrite(highdata, 1, sector_bytes, f): the first n bytes of the buffer
Block(buf, n) == [k \in 1 .. n |-> buf[k - 1]]

\* main() has parsed -b, -s, -t, -h, -f, has tried to read the boot sector
\* and calls mode_high
InitHigh ==
    /\ mode = "high"
    /\ tracks \in TrackArgs /\ sides \in SideArgs
    /\ track_sectors \in SectorArgs
    /\ sector_bytes \in 1 .. MAX_SECTOR_SIZE
    /\ fill \in FillArgs
    /\ highdata \in {FillBlock(fill), DiskSector(0, 0, 1)}
    /\ s = 0 /\ flen = 0
    /\ \E host \in Hosts : device = host.device /\ hostMask = host.mask
    /\ lowpos = 0 /\ lowdata = NoBuffer /\ lowtime = NoBuffer
    /\ lowtime_on = 0 /\ floppy_irq_wait = 0 /\ floppy_c = 0
    /\ floppy_irq_old = "NULL" /\ pic0_mask_old = 0
    /\ out = << >> /\ rec = << >>
    /\ c = 0 /\ h = 0 /\ i = 0 /\ result = 0 /\ invalid = 0 /\ wres = 0
    /\ short_timeout = 0 /\ timestart = 0 /\ clock = 0 /\ sampled = TRUE
    /\ pc = "start" /\ wsite = "none" /\ xsite = "none"
    /\ vector = "host" /\ pic_mask = hostMask /\ iflag = 1
    /\ dor = DorReset(device) /\ fdc = "idle"
    /\ oob = FALSE /\ datareg = -1 /\ nirq = 0 /\ ports = << >>
    /\ sess = "none"
    /\ issued = 0 /\ missed = 0 /\ snap = NoBuffer /\ lret = 0 /\ rc = -1
    /\ stage = "none" /\ delivered = FALSE /\ timeout = 0
    /\ side_arg = -1

\* mode_high up to the loops: if (sides <= 0 || sides > 2) sides = 2;
\* open_output(); invalid = 0; c = 0, h = 0, s = 1
HighStart ==
    /\ pc = "start"
    /\ sides' = StartSides(sides)
    /\ invalid' = 0 /\ out' = << >>
    /\ c' = 0 /\ h' = 0 /\ s' = 1
    /\ pc' = "h_loop"
    /\ UNCHANGED << gCap, floppy_irq_wait, gHw, gFdc, gEnv, gWait, gStage,
                    lowtime_on, device, tracks, mode, hostMask, side_arg,
                    timeout, highdata, track_sectors, sector_bytes, fill, flen,
                    result, rec, rc, wsite, xsite, wres, sess, stage,
                    delivered >>

\* the tests of the three for loops, innermost first, and at the end of the
\* outer loop the return value
HighLoop ==
    /\ pc = "h_loop"
    /\ IF c >= tracks
       THEN /\ pc' = "m_done" /\ rc' = ModeResult(invalid)
            /\ UNCHANGED << c, h, s >>
       ELSE IF h >= sides
       THEN /\ c' = c + 1 /\ h' = 0 /\ s' = 1
            /\ UNCHANGED << pc, rc >>
       ELSE IF s > track_sectors
       THEN /\ h' = h + 1 /\ s' = 1
            /\ UNCHANGED << pc, rc, c >>
       ELSE /\ pc' = "h_fill"
            /\ UNCHANGED << rc, c, h, s >>
    /\ UNCHANGED << gCap, floppy_irq_wait, gHw, gFdc, gEnv, gWait, gStage,
                    lowtime_on, device, tracks, sides, mode, hostMask,
                    side_arg, timeout, highdata, track_sectors, sector_bytes,
                    fill, flen, result, invalid, out, rec, wsite, xsite, wres,
                    sess, stage, delivered >>

\* high_read_sector: the buffer is filled once, diskinfo is set up and
\* high_retry starts with i = HIGH_RETRIES
HighFill ==
    /\ pc = "h_fill"
    /\ highdata' = FillBlock(fill)
    /\ i' = HIGH_RETRIES /\ issued' = 0
    /\ pc' = "h_bios"
    /\ UNCHANGED << gCap, floppy_irq_wait, gHw, gFdc, gEnv, gWait, gMode,
                    floppy_c, missed, snap, lret,
                    lowtime_on, device, tracks, sides, mode, hostMask,
                    side_arg, timeout, track_sectors, sector_bytes,
                    fill, s, flen, wsite, xsite, wres, sess, stage,
                    delivered >>

\* high_retry leaves its loop: if (result == 0) break; or --i reached 0
RetryEnds(status, left) == status = 0 \/ left = 0

\* one turn of high_retry: result = _bios_disk(_DISK_READ, &diskinfo) >> 8.
\* The BIOS has the controller move the sector into diskinfo.buffer; a CRC
\* error is found only after the data has been moved, a missing sector
\* moves nothing.
HighBios ==
    /\ pc = "h_bios"
    /\ \E status \in BiosStatus :
          /\ result' = status
          /\ highdata' = IF status \in {0, 16} THEN DiskSector(c, h, s)
                          ELSE highdata
          /\ issued' = issued + 1
          /\ IF status = 0 THEN i' = i ELSE i' = i - 1
          /\ pc' = IF RetryEnds(status, i') THEN "h_write" ELSE "h_bios"
    /\ UNCHANGED << gCap, floppy_irq_wait, gHw, gFdc, gEnv, gWait,
                    c, h, invalid, out, rec, rc, floppy_c, missed, snap, lret,
                    lowtime_on, device, tracks, sides, mode, hostMask,
                    side_arg, timeout, track_sectors, sector_bytes,
                    fill, s, flen, wsite, xsite, wres, sess, stage,
                    delivered >>

\* variant: a sector that could not be read is left out of the file
HighWriteSkipsFailed ==
    /\ pc = "h_write"
    /\ invalid' = IF result # 0 THEN invalid + 1 ELSE invalid
    /\ out' = IF result # 0 THEN << >> ELSE Block(highdata, sector_bytes)
    /\ rec' = Append(rec, << c, h, s, flen >>)
    /\ flen' = flen + Len(out')
    /\ i' = 0
    /\ pc' = "h_next"
    /\ UNCHANGED << gCap, floppy_irq_wait, gHw, gFdc, gEnv, gWait,
                    c, h, result, rc, floppy_c, issued, missed, snap, lret,
                    lowtime_on, device, tracks, sides, mode, hostMask,
                    side_arg, timeout, highdata, track_sectors, sector_bytes,
                    fill, s, wsite, xsite, wres, sess, stage, delivered >>

\* if (result) ++invalid; fwrite(highdata, 1, sector_bytes, f).  rec notes
\* the sector and the file offset its block starts at.
HighWrite ==
    /\ pc = "h_write"
    /\ invalid' = IF result # 0 THEN invalid + 1 ELSE invalid
    /\ out' = Block(highdata, sector_bytes)
    /\ rec' = Append(rec, << c, h, s, flen >>)
    /\ flen' = flen + Len(out')
    /\ i' = 0
    /\ pc' = "h_next"
    /\ UNCHANGED << gCap, floppy_irq_wait, gHw, gFdc, gEnv, gWait,
                    c, h, result, rc, floppy_c, issued, missed, snap, lret,
                    lowtime_on, device, tracks, sides, mode, hostMask,
                    side_arg, timeout, highdata, track_sectors, sector_bytes,
                    fill, s, wsite, xsite, wres, sess, stage, delivered >>

\* ++s; result is assigned again before it is read
HighNext ==
    /\ pc = "h_next"
    /\ s' = s + 1
    /\ result' = 0 /\ issued' = 0
    /\ pc' = "h_loop"
    /\ UNCHANGED << gCap, floppy_irq_wait, gHw, gFdc, gEnv, gWait,
                    c, h, invalid, out, rec, rc, i, floppy_c, missed, snap,
                    lret, lowtime_on, device, tracks, sides, mode, hostMask,
                    side_arg, timeout, highdata, track_sectors, sector_bytes,
                    fill, flen, wsite, xsite, wres, sess, stage, delivered >>

NextHigh ==
    HighStart \/ HighLoop \/ HighFill \/ HighBios \/ HighWrite \/ HighNext

SpecHigh == InitHigh /\ [][NextHigh]_vars

\* ------------------------------------------------------------------ properties

\* C1: the capture position stays within 0..MAX_TRACK_SIZE and the handler
\* never stores into the data or timing buffer at an index at or beyond
\* MAX_TRACK_SIZE.
C1_PositionWithinCapacity ==
    /\ lowpos \in 0..MAX_TRACK_SIZE
    /\ ~oob

\* a full buffer while the controller is still delivering bytes
C1_Witness ==
    /\ lowpos = MAX_TRACK_SIZE
    /\ fdc = "exec"
    /\ nirq > MAX_TRACK_SIZE

\* C2: a data interrupt at a position p below MAX_TRACK_SIZE stores the byte
\* read from the data register at index p and leaves the position at p+1; at
\* MAX_TRACK_SIZE it leaves the position and the buffer as they were.
C2_DataInterruptStep ==
    [][IrqData =>
         IF lowpos < MAX_TRACK_SIZE
         THEN /\ lowpos \in DOMAIN lowdata
              /\ lowdata' = [lowdata EXCEPT ![lowpos] = datareg']
              /\ lowpos' = lowpos + 1
         ELSE /\ lowpos' = lowpos
              /\ lowdata' = lowdata]_vars

\* the buffer was filled byte by byte and a further data interrupt arrived
C2_Witness ==
    /\ nirq = MAX_TRACK_SIZE + 1
    /\ lowpos = MAX_TRACK_SIZE
    /\ \A k \in DOMAIN lowdata : lowdata[k] = datareg

\* C3: once low_close has returned, interrupt vector 0x0E and the PIC mask
\* hold the values the host had before low_open, on every path, a close
\* inside a failing low_open followed by the caller's close included.
C3_CloseRestoresHost ==
    (pc \in {"o_ret", "m_write"} /\ sess = "closed")
        => (vector = "host" /\ pic_mask = hostMask)

\* C4: every low_open is followed by a low_close of that session before the
\* next low_open and before the mode returns.
C4_OpenThenClose ==
    /\ pc = "o_install" => sess # "open"
    /\ pc = "m_done" => sess # "open"
    /\ pc \in {"m_write", "m_next"} => sess = "closed"

\* a second session is about to be opened after the first was closed
C4_Witness ==
    /\ pc = "o_install"
    /\ sess = "closed"
    /\ Len(rec) = 1

\* C5: floppy_irq_wait_timeout returns 0 at the first poll that finds the
\* flag clear, whether or not the tick counter has been sampled and without the
\* clock having to advance.
C5_ClearFlagReturnsZero ==
    [][(pc = "wd_poll" /\ floppy_irq_wait = 0 /\ pc' # pc)
         => (pc' = "wd_ret" /\ wres' = 0 /\ clock' = clock
             /\ timestart' = timestart
             /\ short_timeout' = short_timeout)]_vars

\* the wait returned 0 before any clock sample and before any tick
C5_Witness ==
    /\ pc = "wd_ret"
    /\ wres = 0
    /\ timestart = 0
    /\ short_timeout = 0
    /\ clock \in ClockStarts

\* C6: while the flag stays set, floppy_irq_wait_timeout eventually returns
\* -1, whatever the tick counter reads when the wait begins, a first sample
\* of 0 and a midnight rollover during the wait included.
C6_TimeoutEventually ==
    (pc = "wd_enter")
        ~> (pc = "wd_ret" /\ (wres = -1 \/ floppy_irq_wait = 0))

\* C7: calibrate issues at most SEEK_RETRIES recalibrate commands, a further
\* one only after an attempt that sensed a nonzero cylinder; it succeeds at
\* the first attempt sensing cylinder 0, fails with LOW_CALIBRATE only after
\* SEEK_RETRIES nonzero attempts, and with LOW_CALIBRATE_TIMEOUT as soon as a
\* wait times out.
C7_Calibrate ==
    /\ pc = "c_cmd" => (issued < SEEK_RETRIES /\ missed = issued)
    /\ pc = "c_sense" => wres = 0
    /\ pc = "c_after" =>
          \/ floppy_c = 0 /\ issued = missed + 1
          \/ floppy_c # 0 /\ issued = SEEK_RETRIES /\ missed = SEEK_RETRIES
    /\ (pc \in {"x_dor", "x_vector", "x_mask", "o_ret"} /\ xsite = "o_ret"
        /\ lret = LOW_CALIBRATE) =>
          (issued = SEEK_RETRIES /\ missed = SEEK_RETRIES /\ floppy_c # 0)
    /\ (pc \in {"x_dor", "x_vector", "x_mask", "o_ret"} /\ xsite = "o_ret"
        /\ lret = LOW_CALIBRATE_TIMEOUT) =>
          (wres # 0 /\ issued = missed + 1)
    /\ (pc = "o_ret" /\ lret = LOW_SUCCESS) =>
          (floppy_c = 0 /\ issued = missed + 1 /\ wres = 0)

\* eight recalibrates each sensed a nonzero cylinder
C7_Witness ==
    /\ pc = "o_ret"
    /\ lret = LOW_CALIBRATE
    /\ issued = SEEK_RETRIES
    /\ missed = SEEK_RETRIES

\* C8: the seek stage issues at most SEEK_RETRIES seeks, a further one only
\* after a mismatch; a first attempt that misses followed by a second that
\* matches goes on to the read with no seek error, and LOW_SEEK needs
\* SEEK_RETRIES mismatches.
C8_Seek ==
    /\ pc = "s_cmd" => (issued < SEEK_RETRIES /\ missed = issued)
    /\ pc = "s_sense" => wres = 0
    /\ pc = "r_zero" =>
          (floppy_c = c /\ issued = missed + 1 /\ issued <= SEEK_RETRIES)
    /\ (pc = "s_after" /\ issued = missed + 1) => floppy_c = c
    /\ (pc = "r_ret" /\ lret = LOW_SEEK) =>
          (issued = SEEK_RETRIES /\ missed = SEEK_RETRIES /\ floppy_c # c)
    /\ (pc = "r_ret" /\ lret = LOW_SEEK_TIMEOUT) =>
          (wres # 0 /\ issued = missed + 1)

\* the first seek landed elsewhere, the second on the track
C8_Witness ==
    /\ pc = "r_zero"
    /\ issued = 2
    /\ missed = 1
    /\ floppy_c = c

\* C9: the read step starts from position 0, issues at most READ_RETRIES
\* read-track commands and a further one only while the position is 0.  It
\* returns LOW_EMPTY only after READ_RETRIES attempts completed without a
\* timeout and captured nothing, the buffer unmodified, and LOW_SUCCESS only
\* after an attempt that completed with a position of at least 1.
C9_ReadTrack ==
    /\ (pc = "r_test" /\ issued = 0) => lowpos = 0
    /\ pc = "r_cmd" => (issued < READ_RETRIES /\ lowpos = 0)
    /\ (pc = "r_test" /\ issued > 0) => wres = 0
    /\ (pc = "r_after" /\ lowpos = 0) => issued = READ_RETRIES
    /\ (pc = "r_ret" /\ lret = LOW_EMPTY) =>
          (issued = READ_RETRIES /\ wres = 0 /\ lowpos = 0 /\ lowdata = snap)
    /\ (pc = "r_ret" /\ lret = LOW_SUCCESS) =>
          (lowpos >= 1 /\ wres = 0 /\ issued \in 1..READ_RETRIES)
    /\ (pc = "r_ret" /\ lret = LOW_TRACK_TIMEOUT) => wres # 0

\* four read-track commands completed and none delivered a byte
C9_Witness ==
    /\ pc = "r_ret"
    /\ lret = LOW_EMPTY
    /\ issued = READ_RETRIES
    /\ lowpos = 0

\* C10: in the multi-track modes each record written to the output begins
\* with the track byte and the side byte, followed by the 4-byte count.
C10_RecordBeginsWithTrackSide ==
    (pc = "m_next" /\ mode \in MultiModes) =>
        /\ Len(out) >= 6
        /\ out[1] = c
        /\ out[2] = h
        /\ SubSeq(out, 3, 6) = LE32(lowpos)

\* C11: each call of mode_low_track_write emits the 4-byte little-endian
\* count n (the final capture position), then the first n bytes of the track
\* buffer, then n 2-byte timing values exactly when timing capture is on
\* (4+n bytes, or 4+3n); a single-track mode writes this one record and
\* nothing else.
C11_RecordLayout ==
    pc = "m_next" =>
        /\ Len(out) = IF lowtime_on # 0 THEN 4 + 3 * lowpos ELSE 4 + lowpos
        /\ out[1] = lowpos % 256
        /\ out[2] = (lowpos \div 256) % 256
        /\ out[3] = 0 /\ out[4] = 0
        /\ \A k \in 1..lowpos : out[4 + k] = lowdata[k - 1]
        /\ lowtime_on # 0 =>
              \A k \in 1..lowpos :
                 /\ out[4 + lowpos + 2 * k - 1] = lowtime[k - 1] % 256
                 /\ out[4 + lowpos + 2 * k] = lowtime[k - 1] \div 256
        /\ mode \notin MultiModes => (Len(rec) = 1 /\ out[1] = lowpos)

\* a timed single-track dump of a full buffer has been written
C11_Witness ==
    /\ pc = "m_next"
    /\ mode = "ftrack"
    /\ lowpos = MAX_TRACK_SIZE
    /\ Len(out) = 4 + 3 * MAX_TRACK_SIZE

\* C12: for any raw 16-bit countdown samples of a track (at least one), the
\* values the normalization loop produces start at 0 and never decrease with
\* the index.
C12_NormalizedMonotone ==
    pc = "n_once" =>
        /\ lowtime[0] = 0
        /\ \A k \in 1..(lowpos - 1) : lowtime[k - 1] <= lowtime[k]

\* C13: normalizing a timing buffer that is already normalized, with the
\* baseline taken again from its element 0, leaves every element unchanged.
C13_NormalizeTwiceSame ==
    pc = "n_twice" => lowtime = snap

\* C14: in the multi-track modes a failing low_open or low_read_track never
\* ends the run: every pair (c, h) with c < tracks, h < sides is attempted
\* once, track by track and side by side within a track, one record is
\* written per pair, and the mode returns RESULT_PARTIAL exactly when a pair
\* reported an error, RESULT_SUCCESS otherwise.
C14_EveryPairOnce ==
    (mode \in MultiModes /\ pc # "start") =>
        /\ Len(rec) <= tracks * sides
        /\ \A k \in 1..Len(rec) :
              rec[k] = << (k - 1) \div sides, (k - 1) % sides >>
        /\ pc = "m_next" => Len(rec) = c * sides + h + 1
        /\ pc \notin {"m_next", "m_done"} => Len(rec) = c * sides + h
        /\ invalid <= Len(rec) + 1
        /\ pc = "m_done" =>
              /\ Len(rec) = tracks * sides
              /\ rc = RESULT_PARTIAL <=> invalid > 0
              /\ rc = RESULT_SUCCESS <=> invalid = 0

\* four pairs were written although one of them failed
C14_Witness ==
    /\ pc = "m_done"
    /\ mode = "low"
    /\ Len(rec) = 4
    /\ invalid = 1
    /\ rc = RESULT_PARTIAL

\* C15, as the code has it: the reset is attempted once and never retried;
\* calibrate and seek make at most SEEK_RETRIES attempts and read-track at
\* most READ_RETRIES; a wait that times out is returned at once, and
\* LOW_CALIBRATE, LOW_SEEK and LOW_EMPTY are returned only after all the
\* attempts of their stage.
C15_AttemptsBeforeFailure ==
    /\ pc = "o_ret" =>
          /\ lret = LOW_RESET => (issued = 1 /\ wres # 0)
          /\ lret = LOW_CALIBRATE_TIMEOUT =>
                (issued \in 1..SEEK_RETRIES /\ wres # 0)
          /\ lret = LOW_CALIBRATE => issued = SEEK_RETRIES
    /\ pc = "r_ret" =>
          /\ lret = LOW_SEEK_TIMEOUT =>
                (issued \in 1..SEEK_RETRIES /\ wres # 0)
          /\ lret = LOW_SEEK => issued = SEEK_RETRIES
          /\ lret = LOW_TRACK_TIMEOUT =>
                (issued \in 1..READ_RETRIES /\ wres # 0)
          /\ lret = LOW_EMPTY => issued = READ_RETRIES

\* C15, as stated: each of reset, calibrate, seek and read-track is retried
\* before a failure of that stage is returned to the caller.
C15_RetriedBeforeFailure ==
    /\ (pc = "o_ret" /\ lret # LOW_SUCCESS) => issued >= 2
    /\ (pc = "r_ret" /\ lret # LOW_SUCCESS) => issued >= 2

\* the one reset of a session timed out and low_open is about to return
C15_Witness ==
    /\ pc = "o_ret"
    /\ lret = LOW_RESET
    /\ issued = 1
    /\ sess = "closed"

\* C16: for every command that expects a controller interrupt (reset
\* release, recalibrate, seek, read-track), on every attempt, the flag is set
\* to 1 before the first byte that triggers it is written, the wait is called
\* only after the command has been written, and no other such command is
\* under way in between.
C16_FlagBeforeCommand ==
    /\ pc \in {"o_flag", "c_flag", "s_flag", "r_flag"} => fdc = "idle"
    /\ pc \in {"o_reset1", "c_cmd", "s_cmd", "r_cmd"} =>
          (floppy_irq_wait = 1 /\ fdc = "idle")
    /\ pc \in {"w_poll", "w_clock"} =>
          /\ wsite \in {"o_resetchk", "c_chk", "s_chk", "r_chk"}
          /\ issued >= 1
          /\ floppy_irq_wait = 0 => fdc = "idle"
    /\ fdc # "idle" => floppy_irq_wait = 1

\* a second recalibrate is about to be written with the flag set again
C16_Witness ==
    /\ pc = "c_cmd"
    /\ issued = 1
    /\ missed = 1
    /\ floppy_irq_wait = 1

\* C17: between the first and the last step of floppy_irq_install and of
\* floppy_irq_restore the CPU has interrupts disabled, so no handler can be
\* invoked there, and the capture handler never runs with the vector swapped
\* and the mask not yet updated.
C17_SwapWithInterruptsOff ==
    /\ pc \in {"o_mask", "x_mask"} => (iflag = 0 /\ ~HandlerInstalled)
    /\ pc \notin {"o_mask", "x_mask"} => iflag = 1
    /\ (vector = "floppy_irq" /\ iflag = 1) =>
          (pic0_mask_old = hostMask /\ pic_mask = UnmaskIrq6(hostMask))

\* the vector is swapped, the host's mask lets IRQ 6 through, and only the
\* CPU flag holds the interrupt back
C17_Witness ==
    /\ pc = "o_mask"
    /\ vector = "floppy_irq"
    /\ pic_mask = hostMask
    /\ ~MaskHasBit6(pic_mask)
    /\ iflag = 0

\* C18: every invocation of the interrupt handler writes the end-of-interrupt
\* command exactly once, as its last port access: on a data interrupt below
\* capacity, on a data interrupt at capacity and on a result interrupt.
C18_AcknowledgeLast ==
    [][(IrqData \/ IrqResult) =>
         /\ ports' # << >>
         /\ {k \in DOMAIN ports' : ports'[k] = "out_20"} = {Len(ports')}]_vars

\* a data interrupt at capacity: status, data register, acknowledge
C18_Witness ==
    /\ nirq > MAX_TRACK_SIZE
    /\ lowpos = MAX_TRACK_SIZE
    /\ ports = << "in_status", "in_data", "out_20" >>

\* C19: a result interrupt clears the flag and leaves the capture position
\* and both buffers unchanged without reading the data register; a data
\* interrupt never changes the flag and reads exactly one byte from the data
\* register, at capacity too.
C19_HandlerFrame ==
    [][/\ IrqResult =>
            /\ floppy_irq_wait' = 0
            /\ UNCHANGED << lowpos, lowdata, lowtime >>
            /\ {k \in DOMAIN ports' : ports'[k] = "in_data"} = {}
       /\ IrqData =>
            /\ floppy_irq_wait' = floppy_irq_wait
            /\ Cardinality({k \in DOMAIN ports' :
                              ports'[k] = "in_data"}) = 1]_vars

\* the result interrupt of a read-track that captured bytes has been taken
C19_Witness ==
    /\ pc = "w_poll"
    /\ wsite = "r_chk"
    /\ floppy_irq_wait = 0
    /\ lowpos >= 1
    /\ ports = << "in_status", "out_20" >>

\* C20: mode_low_track_write reads the buffers and the position only when
\* the capture handler is no longer installed, and low_read_track touches
\* the position only before a read-track command is written or after its
\* wait has returned: the foreground never accesses them while a data
\* interrupt can store.
C20_NoForegroundRace ==
    /\ pc = "m_write" =>
          (sess = "closed" /\ vector # "floppy_irq" /\ ~HandlerInstalled)
    /\ pc \in {"r_zero", "r_test", "r_after"} =>
          (fdc = "idle" /\ ~(HandlerInstalled /\ fdc = "exec"))
    /\ (pc \in {"r_test", "r_after"} /\ issued >= 1) => wres = 0

\* a captured track is about to be written after its session was closed
C20_Witness ==
    /\ pc = "m_write"
    /\ sess = "closed"
    /\ vector = "host"
    /\ lowpos >= 1
    /\ invalid = 0


\* C21: once floppy_irq_wait_timeout has reported a timeout, in whatever
\* stage, the foreground is only on the way to low_close: it stands at the
\* test of the wait's result, at the return of low_read_track, at "if
\* (result)" or inside low_close.  It never stands at a statement that sends
\* a command byte or reads a result byte, the first port it writes is the
\* reset of low_close, and the mark is gone only when low_close has ended
\* (a new command needs a fresh low_open).
C21_NothingAfterTimeout ==
    stage = "timeout" =>
        /\ pc \in {"o_resetchk", "c_chk", "s_chk", "r_chk", "r_ret", "m_err",
                   "x_dor", "x_vector", "x_mask"}
        /\ sess = "open"
        /\ pc \in {"x_vector", "x_mask"} => dor = DorReset(device)

C21_Witness ==
    /\ stage = "timeout"
    /\ pc = "x_dor" /\ xsite = "m_write"
    /\ result = LOW_SEEK_TIMEOUT
    /\ dor = DorMotor(device)


\* C22: floppy_write and floppy_read end after at most 65536 (here
\* BYTE_POLLS) reads of the main status register.  A call whose latest read
\* showed the ready bit has made exactly one access to the data register,
\* right after that read (a write for floppy_write, which returns 0; a read
\* for floppy_read), and has returned.  A call that never saw the bit has
\* polled the full count, has not touched the data register and returns -1,
\* or 0xFF from floppy_read.  low_open goes on to the next command byte
\* after a byte that was not taken: at the end every specify byte has been
\* attempted.
C22_ByteTransfer ==
    LET polls == SelectSeq(ports, LAMBDA a : a \in {"in_status",
                                                    "in_status_ready"})
        data  == SelectSeq(ports, LAMBDA a : a \in {"in_data", "out_data"})
        seen  == \E k \in 1 .. Len(ports) : ports[k] = "in_status_ready"
    IN  /\ pc = "b_poll" =>
            /\ data = << >> /\ ~seen
            /\ Len(polls) < BYTE_POLLS /\ timeout = Len(polls)
        /\ pc = "b_ret" =>
            /\ Len(polls) \in 1 .. BYTE_POLLS
            /\ seen =>
                  /\ Len(data) = 1
                  /\ ports[Len(ports)] = (IF Script[i] = "write"
                                          THEN "out_data" ELSE "in_data")
                  /\ ports[Len(ports) - 1] = "in_status_ready"
                  /\ Script[i] = "write" => wres = 0
            /\ ~seen =>
                  /\ data = << >>
                  /\ Len(polls) = BYTE_POLLS
                  /\ wres = (IF Script[i] = "write" THEN -1 ELSE 255)
        /\ pc = "b_done" =>
            \/ issued = Len(Script)
            \/ issued = Len(Script) - 2 /\ missed >= 1

C22_Witness ==
    /\ pc = "b_done"
    /\ issued = Len(Script) - 2 /\ missed = Len(Script) - 2
    /\ ports = [k \in 1 .. BYTE_POLLS |-> "in_status"]
    /\ wres = -1


\* C23: in a single-track mode started with -t T -h S, S being 0 or 1, the
\* seek and the read-track command carry cylinder T and side S as they were
\* given (-h 0 is side 0).
C23_TrackSideAsGiven ==
    (mode \notin MultiModes /\ side_arg \in {0, 1}) =>
        /\ pc = "s_cmd" =>
              SeekCommand(c, h, device) = SeekCommand(tracks, side_arg, device)
        /\ pc = "r_cmd" =>
              ReadCommand(c, h, device) = ReadCommand(tracks, side_arg, device)


\* C24: sector mode writes one block of exactly sector_bytes bytes for
\* every sector, in C:H:S order, whether the sector was read or not: the
\* k-th block written is the one of the k-th sector in that order and
\* starts at offset ((c * sides + h) * track_sectors + (s - 1)) *
\* sector_bytes, and at the end no sector is missing.
C24_SectorBlocks ==
    /\ \A k \in 1 .. Len(rec) :
          LET cc == rec[k][1]
              hh == rec[k][2]
              ss == rec[k][3]
          IN  /\ cc \in 0 .. (tracks - 1) /\ hh \in 0 .. (sides - 1)
              /\ ss \in 1 .. track_sectors
              /\ (cc * sides + hh) * track_sectors + (ss - 1) = k - 1
              /\ rec[k][4] = ((cc * sides + hh) * track_sectors + (ss - 1))
                              * sector_bytes
    /\ flen = Len(rec) * sector_bytes
    /\ pc = "h_next" => Len(out) = sector_bytes
    /\ pc = "m_done" => Len(rec) = tracks * sides * track_sectors

C24_Witness ==
    /\ pc = "h_next" /\ result # 0
    /\ c = 1 /\ h = 1 /\ s = 2 /\ sector_bytes = 2
    /\ invalid = 2
    /\ rec[Len(rec)] = << 1, 1, 2, 14 >>

\* C25: a sector whose read failed on all HIGH_RETRIES attempts is written
\* as sector_bytes copies of fill & 0xFF; high_retry calls the BIOS at most
\* HIGH_RETRIES times and stops at the first call that returns status 0.
C25_FailedSectorFilled ==
    pc = "h_next" =>
        /\ issued \in 1 .. HIGH_RETRIES
        /\ result # 0 =>
              /\ issued = HIGH_RETRIES
              /\ out = [k \in 1 .. sector_bytes |-> fill % 256]


\* C26: when low_open returns LOW_SUCCESS the handler is installed at vector
\* 0Eh, IRQ 6 is unmasked and the digital output register holds "enabled,
\* motor on" for the device; when it returns LOW_RESET,
\* LOW_CALIBRATE_TIMEOUT or LOW_CALIBRATE, low_close has already run: the
\* register holds the reset / motor-off value, the handler is not installed
\* any more and the interrupt mask is the one saved at the install.
C26_OpenPostcondition ==
    pc = "o_ret" =>
        /\ lret \in {LOW_SUCCESS, LOW_RESET, LOW_CALIBRATE_TIMEOUT,
                     LOW_CALIBRATE}
        /\ lret = LOW_SUCCESS =>
              /\ sess = "open"
              /\ vector = "floppy_irq" /\ ~MaskHasBit6(pic_mask)
              /\ iflag = 1
              /\ dor = DorMotor(device)
        /\ lret # LOW_SUCCESS =>
              /\ sess = "closed"
              /\ vector # "floppy_irq" /\ pic_mask = pic0_mask_old
              /\ iflag = 1
              /\ dor = DorReset(device)

C26_Witness ==
    /\ pc = "o_ret" /\ lret = LOW_CALIBRATE
    /\ sess = "closed" /\ dor = DorReset(device)
    /\ vector = "host" /\ pic_mask = hostMask
    /\ missed = SEEK_RETRIES


\* C27: the stages of a session come in the order reset, sense interrupt
\* status, data rate / specify / motor on, recalibrate, seek, read track,
\* and no statement of a later stage is reached after an earlier stage
\* returned an error.  The status is sensed and the controller programmed
\* only after the reset wait succeeded; a recalibrate is sent only after
\* that; a seek only in an open session whose low_open returned LOW_SUCCESS
\* with floppy_c = 0 from the calibration; a read-track only in an open
\* session whose seek has just ended with floppy_c equal to the track asked
\* for.
C27_StageOrder ==
    /\ pc \in {"o_reset0", "o_flag", "o_reset1"} => stage = "none"
    /\ pc \in {"o_sense", "o_program"} => stage = "reset"
    /\ pc \in {"c_flag", "c_cmd", "c_sense"} => stage = "programmed"
    /\ (pc = "o_ret" /\ lret = LOW_SUCCESS) =>
          stage = "calibrated" /\ floppy_c = 0
    /\ pc \in {"s_flag", "s_cmd", "s_sense"} =>
          stage = "calibrated" /\ sess = "open" /\ result = LOW_SUCCESS
    /\ pc = "r_zero" => floppy_c = c
    /\ pc \in {"r_zero", "r_flag", "r_cmd", "r_results"} =>
          stage = "sought" /\ sess = "open" /\ result = LOW_SUCCESS
    /\ stage # "none" => sess = "open"

C27_Witness ==
    /\ pc = "r_cmd" /\ stage = "sought"
    /\ i = 1 /\ issued = 1
    /\ c = 1 /\ h = 1
    /\ dor = DorMotor(device)


\* C28: the assembly handler floppy_irq_ does what the C reference handler
\* floppy_irq_unused does: on every interrupt it makes the same port
\* accesses in the same order and leaves lowpos, the buffers and
\* floppy_irq_wait as the C handler would, with the same capacity test.
C28_HandlersEquivalent ==
    [][ /\ IrqData =>
              /\ UnusedData(DiskByte(c, h), TimerAt(lowpos) % 256,
                            TimerAt(lowpos) \div 256)
              /\ ports' = UnusedPorts(TRUE, lowpos < MAX_TRACK_SIZE,
                                      lowtime_on # 0)
        /\ IrqResult =>
              /\ UnusedResult
              /\ ports' = UnusedPorts(FALSE, lowpos < MAX_TRACK_SIZE,
                                      lowtime_on # 0) ]_vars

C28_Witness ==
    /\ lowtime_on = 1 /\ lowpos = 2 /\ nirq = 2
    /\ Peek(lowtime, 1) = TimerAt(1)
    /\ Peek(lowdata, 1) = datareg
    /\ ports = UnusedPorts(TRUE, TRUE, TRUE)


\* C29: in the multi-track modes the record written for a pair (c, h) comes
\* from that pair's own read only: its data bytes are bytes of track c, side
\* h, and a pair whose low_open or seek failed is written with count 0 and
\* nothing else.
C29_OwnReadOnly ==
    (mode \in MultiModes /\ pc = "m_next") =>
        /\ \A k \in 1 .. lowpos : Peek(out, 4 + k) = DiskByte(c, h)
        /\ result \in {LOW_RESET, LOW_CALIBRATE_TIMEOUT, LOW_CALIBRATE,
                       LOW_SEEK_TIMEOUT, LOW_SEEK} => out = LE32(0)


\* C30: the calibration and the seek are taken as successful only when the
\* sense-interrupt-status really delivered a cylinder byte equal to the
\* target (0 for the calibration, the track for the seek): a floppy_irq_status
\* whose write or read gave up, leaving floppy_c at 0 or 0xFF, never ends
\* either loop with success.
C30_SensedCylinder ==
    /\ (pc = "c_after" /\ floppy_c = 0) => delivered
    /\ (pc = "s_after" /\ floppy_c = c) => delivered


\* C31: floppy_irq_wait_timeout returns -1 only while the flag is still set:
\* a result interrupt taken at any point before the return, the gap between
\* the last poll of the flag and the deadline test included, makes the wait
\* return 0.
C31_TimeoutOnlyWithFlagSet ==
    [][(pc # "wd_ret" /\ pc' = "wd_ret" /\ wres' = -1)
         => floppy_irq_wait # 0]_vars


\* C32: while timing capture is off (lowtime_on = 0, no timing buffer
\* allocated) no step touches the timing buffer, the handler accesses no
\* timer port and mode_low_track_write writes the count and the data bytes
\* only.  While it is on, a data interrupt below capacity latches the timer,
\* reads the count low byte first and stores the 16-bit sample in the cell
\* with the index of the data byte, the position as it was before it is
\* advanced by one.
C32_TimingOnlyWhenEnabled ==
    [][ /\ (lowtime_on = 0 /\ lowtime_on' = 0) =>
              /\ lowtime = NoBuffer /\ lowtime' = lowtime
              /\ (IrqData \/ IrqResult) =>
                    \A k \in 1 .. Len(ports') :
                        ports'[k] \notin {"out_43", "in_40"}
              /\ ModeWrite =>
                    out' = LE32(lowpos) \o Flat(lowdata, lowpos, FALSE)
        /\ (IrqData /\ lowtime_on # 0 /\ lowpos < MAX_TRACK_SIZE) =>
              /\ ports' = << "in_status", "in_data", "out_43", "in_40",
                             "in_40", "out_20" >>
              /\ lowdata' = [lowdata EXCEPT ![lowpos] = datareg']
              /\ lowtime' = [lowtime EXCEPT ![lowpos] =
                                (TimerAt(lowpos) % 256)
                                + 256 * (TimerAt(lowpos) \div 256)]
              /\ lowpos' = lowpos + 1 ]_vars

C32_Witness ==
    /\ mode = "track" /\ pc = "m_next"
    /\ lowtime_on = 0 /\ lowtime = NoBuffer
    /\ lowpos = 2 /\ result = LOW_SUCCESS
    /\ out = LE32(2) \o << DiskByte(c, h), DiskByte(c, h) >>


\* C33: when the read-track wait times out with k >= 1 bytes captured,
\* low_read_track returns LOW_TRACK_TIMEOUT at once, reading no result byte
\* and leaving the position alone; from then until the record is written the
\* position never goes down and the cells below it keep their bytes
\* (interrupts that still arrive only append); and the record written for
\* the track starts with the position as count, followed by the bytes of the
\* cells below it: the k bytes are in it at indices 0 .. k-1.
C33_PartialDataKept ==
    [][ LET late ==
              \/ pc = "r_chk" /\ wres # 0
              \/ pc = "r_ret" /\ lret = LOW_TRACK_TIMEOUT
              \/ /\ result = LOW_TRACK_TIMEOUT
                 /\ pc \in {"m_err", "x_dor", "x_vector", "x_mask", "m_write"}
        IN  (late /\ lowpos >= 1) =>
              /\ lowpos' >= lowpos
              /\ \A j \in 0 .. (lowpos - 1) :
                    Peek(lowdata', j) = Peek(lowdata, j)
              /\ (pc = "r_chk" /\ pc' # pc) =>
                    /\ pc' = "r_ret" /\ lret' = LOW_TRACK_TIMEOUT
                    /\ floppy_c' = floppy_c /\ i' = i
              /\ (pc = "r_ret" /\ pc' # pc) =>
                    pc' = "m_err" /\ result' = LOW_TRACK_TIMEOUT
              /\ (pc = "m_write" /\ pc' # pc) =>
                    /\ Len(out') >= 4 + lowpos
                    /\ SubSeq(out', 1, 4 + lowpos) =
                          LE32(lowpos) \o Flat(lowdata, lowpos, FALSE) ]_vars

C33_Witness ==
    /\ pc = "m_next" /\ result = LOW_TRACK_TIMEOUT
    /\ mode = "low" /\ invalid = 1
    /\ lowpos = 2
    /\ out = LE32(2) \o << DiskByte(c, h), DiskByte(c, h) >>

====
